---- MODULE Spec2Model ----
(***************************************************************************)
(* Model of tapeagents/runtime.py: main_loop (the generator                *)
(* _implementation) pulled event by event through MainLoopStream by the    *)
(* for loop of MainLoopStream.get_final_tape.  The Agent and the           *)
(* Environment are external collaborators: every value they can hand back  *)
(* is drawn nondeterministically from bounded sets.                        *)
(***************************************************************************)
EXTENDS Integers, Sequences, FiniteSets, TLC

\* ------------------------------------------------------------------ bounds
MaxTapeLen == 3
MaxRounds == 2
MaxStartLen == 1
MaxTurns == 2
MaxNewObservations == 1
MaxBatchTapeLen == 1
MaxTapes == 2
MaxStreamLen == 3
MaxCalls == 2
MaxToolCalls == 2
MaxProcesses == 2
MaxShardLen == 1
MaxFiles == 2
MaxFileTapes == 2
MaxLoads == 3

\* ------------------------------------------------------------- data model
\* Python's None for an optional field; a present value x is <<x>>.
None == << >>
Some(x) == << x >>
IsSet(o) == o # None
Get(o) == o[1]

\* A step: its class (what isinstance tells apart), its kind tag and the rest
\* of its content.
Step(cls, kind, payload) == [cls |-> cls, kind |-> kind, payload |-> payload]

\* The three step classes runtime.py tells apart with isinstance.
Observation == Step("Observation", "observation", 0)
Action == Step("Action", "tool_call", 0)
FinalStep == Step("FinalStep", "final", 0)
Steps == {Observation, Action, FinalStep}

\* isinstance(step, FinalStep)
IsFinalStep(step) == step.cls = "FinalStep"

\* isinstance(tape.steps[-1], FinalStep); the callers hold a non-empty tape
LastIsFinal(t) == Len(t) > 0 /\ IsFinalStep(t[Len(t)])

\* Truth value of a Tape object in `if event.final_tape:`: a Tape has __len__
\* (runtime.py takes len(tape)), so an empty tape is false like None.
Truthy(o) == IsSet(o) /\ Len(Get(o)) > 0

\* a is a prefix of b
IsPrefix(a, b) == Len(a) <= Len(b) /\ SubSeq(b, 1, Len(a)) = a

\* MainLoopStatus
StatusOK == "ok"
StatusFinished == "finished"
StatusNoActions == "no_actions"
StatusExternalInputNeeded == "external_input_needed"
StatusUnknownAction == "unknown_action"
TerminalStatuses == {StatusFinished, StatusNoActions, StatusExternalInputNeeded}

\* AgentEvent: step and final_tape, one of them set
AgentEvent(step, final_tape) == [step |-> step, final_tape |-> final_tape]

\* MainLoopEvent with its defaults: every field None, status OK
MainLoopEvent == [agent_event |-> None, agent_tape |-> None, observation |-> None,
                  env_tape |-> None, status |-> StatusOK]

\* ------------------------------------------------------------------ state
VARIABLES
    max_loops,      \* the budget argument of main_loop
    start_tape,     \* the start_tape argument
    pc,             \* where _implementation stands
    demand,         \* TRUE while a next() call is running the generator
    n_loops,        \* local n_loops
    tape,           \* local tape (the working tape)
    event,          \* local event: the last AgentEvent bound by the for loop
    agent_tape,     \* local agent_tape
    produced,       \* steps the running Agent turn has yielded so far
    completed,      \* TRUE once the running Agent turn yielded its final_tape
    agent_pending,  \* TRUE while the Agent's generator holds a second final_tape event
    obs_i,          \* how many steps of tape[len(agent_tape):] were yielded
    events,         \* every MainLoopEvent yielded so far, in order
    this_round,     \* index in events of the first event of the current round
    agent_inputs,   \* the tapes agent.run was called with, in order
    react_inputs,   \* the tapes environment.react was called with, in order
    react_outputs,  \* what each react call did: <<tape>> or a raised name
    last_final_tape,\* get_final_tape's local
    result          \* what get_final_tape returned or raised

\* replay_tape
VARIABLES
    r_tape,             \* argument tape: the recorded (old) tape
    r_env,              \* TRUE when an env argument is given (not None)
    r_start,            \* argument start_tape: None or a tape
    reuse_observations, \* argument reuse_observations
    stop_on_mismatch,   \* argument stop_on_mismatch
    same_agent,         \* TRUE when agent and env are the ones that recorded r_tape
    r_pc,               \* where replay_tape stands
    r_match,            \* local match
    r_new_tape,         \* local new_tape
    r_i,                \* local i (0-based position in the recorded tape)
    r_event,            \* local event
    r_agent_tape,       \* local agent_tape
    r_produced,         \* steps the running Agent turn has yielded so far
    r_completed,        \* TRUE once the running Agent turn yielded its final_tape
    r_obs,              \* local observations (strict mode)
    r_k,                \* how many of r_obs the for loop has taken
    r_result,           \* what replay_tape returned or raised
    r_log,              \* the comparisons made, in order
    r_agent_inputs,     \* the tapes agent.run was called with, in order
    r_env_inputs        \* the tapes env.react was called with, in order

mlvars == << max_loops, start_tape, pc, demand, n_loops, tape, event,
             agent_tape, produced, completed, agent_pending, obs_i, events, this_round,
             agent_inputs, react_inputs, react_outputs, last_final_tape, result >>

r_args == << r_tape, r_env, r_start, reuse_observations, stop_on_mismatch, same_agent >>

r_locals == << r_pc, r_match, r_new_tape, r_i, r_event, r_agent_tape, r_produced,
               r_completed, r_obs, r_k, r_result, r_log, r_agent_inputs, r_env_inputs >>

rvars == << r_args, r_locals >>

\* replay_tapes: its list of tapes and its locals
VARIABLES
    b_tapes,        \* tapes: the recorded tapes to replay
    b_pc,           \* position of replay_tapes
    b_i,            \* number of tapes the for loop has dealt with
    ok,             \* ok
    fails,          \* fails
    b_outcomes,     \* history: how each call of replay_tape ended
    b_result        \* how replay_tapes ended

bvars == << b_tapes, b_pc, b_i, ok, fails, b_outcomes, b_result >>

\* Two streams created by two calls of main_loop, with a stateless
\* deterministic Agent and Environment
VARIABLES
    s_start,        \* per stream: start_tape
    s_max,          \* per stream: max_loops
    s_pc,           \* per stream: position of the generator
    s_n,            \* per stream: n_loops
    s_tape,         \* per stream: tape
    s_k,            \* per stream: events of the running round already yielded
    s_events,       \* per stream, history: the events yielded
    a_final,        \* the Agent ends its tape with a FinalStep from this length on
    e_silent        \* the Environment has nothing to react to from this length on

svars == << s_start, s_max, s_pc, s_n, s_tape, s_k, s_events, a_final, e_silent >>

\* A MainLoopStream over some generator, and a caller that pulls events from
\* it and calls get_final_tape
VARIABLES
    g_events,       \* the events the generator yields before it ends
    g_end,          \* how the generator ends: StopIteration or an exception
    g_pos,          \* how many events the generator has yielded
    g_finished,     \* TRUE once the generator has returned or raised
    d_pc,           \* "caller", or "gft" while get_final_tape runs
    d_pulled,       \* how many events the caller pulled itself
    d_last,         \* get_final_tape's local last_final_tape
    d_results       \* how each get_final_tape call ended, in order

dvars == << g_events, g_end, g_pos, g_finished, d_pc, d_pulled, d_last, d_results >>

\* The tool cache: the module globals of tool_cache.py in the running process,
\* the cache directories, and the threads that call into the module
VARIABLES
    c_forced,       \* TRUE when _FORCE_CACHE_DIR is set (not None)
    c_fdir,         \* the records of the cache file in the forced directory
    c_pid,          \* os.getpid() of the running process
    c_cache,        \* _cache: per function name a dict object (0: no such key)
    c_heap,         \* the dict objects: c_heap[id] is a set of << key, result >>
    c_files,        \* the directory common_cache_dir(): per file name its records
    t_pc,           \* per thread: where it stands
    t_call,         \* per thread: the call (fn_name, args, kwargs) it is in
    t_result,       \* per thread: local result of wrapper / add_to_cache
    t_dict,         \* per thread: add_to_cache's local tool_cache (a dict object)
    c_calls,        \* history: how every call of a wrapped tool ended, in order
    c_invoked,      \* history: the calls for which the tool itself was invoked
    c_loaded        \* history: the records read by the latest load_cache, in order

cvars == << c_forced, c_fdir, c_pid, c_cache, c_heap, c_files, t_pc, t_call,
            t_result, t_dict, c_calls, c_invoked, c_loaded >>

\* A TapeBrowser on a folder of tape files, and the handlers its page calls
VARIABLES
    tb_folder,      \* the folder: per file name (a number) the tapes in the file
    tb_files,       \* self.files
    tb_index,       \* self.tape_index: per tape id None or Some(<< i, j >>)
    tb_children,    \* self.tape_children: per tape id None or Some(child ids)
    tb_selected,    \* self.selected_tape
    tb_tapes,       \* self.tapes
    tb_loads,       \* how many times the page was loaded
    tb_out          \* how the latest handler ended, and what it showed

wvars == << tb_folder, tb_files, tb_index, tb_children, tb_selected, tb_tapes,
            tb_loads, tb_out >>

\* The variables of the parts modelled further below
ovars == << dvars, cvars, wvars >>

vars == << mlvars, rvars, bvars, svars, ovars >>

args == << max_loops, start_tape >>

\* --------------------------------------------------------- get_final_tape
\* One pass of get_final_tape's for loop over a delivered event:
\*   if event.agent_tape: last_final_tape = event.agent_tape
\*   if event.env_tape:   last_final_tape = event.env_tape
GftStep(last, ev) ==
    LET a == IF Truthy(ev.agent_tape) THEN ev.agent_tape ELSE last
    IN  IF Truthy(ev.env_tape) THEN ev.env_tape ELSE a

\* After the for loop: return last_final_tape, or raise ValueError
GftFinish(last) ==
    IF last # None THEN [returned |-> last, raised |-> ""]
                   ELSE [returned |-> None, raised |-> "ValueError"]

NoResult == [returned |-> None, raised |-> "pending"]

\* `yield ev`: the event reaches the caller and the generator is suspended
\* until the next pull; get_final_tape's loop body runs on the event.
Yield(ev) ==
    /\ events' = Append(events, ev)
    /\ demand' = FALSE
    /\ last_final_tape' = GftStep(last_final_tape, ev)

\* The generator ends (StopIteration) or raises: the pull returns to the
\* caller; get_final_tape leaves its loop, or the exception passes through it.
Finish(how) ==
    /\ demand' = FALSE
    /\ result' = IF how = "StopIteration" THEN GftFinish(last_final_tape)
                 ELSE [returned |-> None, raised |-> how]

\* ------------------------------------------------------------ the budget
\* Mutant: the while test written with <=
LoopCondition_OffByOne == n_loops <= max_loops \/ max_loops = -1

\* Mutant: the while test does not look at the budget
LoopCondition_NoBudget == n_loops >= 0

\* while n_loops < max_loops or max_loops == -1
LoopCondition == n_loops < max_loops \/ max_loops = -1

\* -------------------------------------------------------------- main_loop
\* MainLoopStream.__next__: the caller asks for the next event.
Pull ==
    /\ ~demand
    /\ pc \notin {"done", "failed"}
    /\ demand' = TRUE
    /\ UNCHANGED << ovars, svars, rvars, bvars, completed, args, agent_pending, pc, n_loops, tape, event, agent_tape, produced, obs_i,
                    events, this_round, agent_inputs, react_inputs,
                    react_outputs, last_final_tape, result >>

\* Mutant: the loop body runs when main_loop is called, without a pull
LoopEnter_Eager ==
    /\ pc = "loop"
    /\ LoopCondition
    /\ n_loops < MaxRounds
    /\ agent_inputs' = Append(agent_inputs, tape)
    /\ produced' = << >>
    /\ completed' = FALSE
    /\ this_round' = Len(events) + 1
    /\ pc' = "agent_next"
    /\ demand' = TRUE
    /\ UNCHANGED << ovars, svars, rvars, bvars, args, agent_pending, n_loops, tape, event, agent_tape, obs_i,
                    events, react_inputs, react_outputs, last_final_tape, result >>

\* The while test holds: agent.run(tape) is called and the for loop starts.
LoopEnter ==
    /\ demand /\ pc = "loop"
    /\ LoopCondition
    /\ n_loops < MaxRounds
    /\ agent_inputs' = Append(agent_inputs, tape)
    /\ produced' = << >>
    /\ completed' = FALSE
    /\ this_round' = Len(events) + 1
    /\ pc' = "agent_next"
    /\ UNCHANGED << ovars, svars, rvars, bvars, args, agent_pending, demand, n_loops, tape, event, agent_tape, obs_i, events,
                    react_inputs, react_outputs, last_final_tape, result >>

\* Mutant: the exhausted budget is reported by a status event
LoopExit_WithStatus ==
    /\ demand /\ pc = "loop"
    /\ ~LoopCondition
    /\ Yield([MainLoopEvent EXCEPT !.status = StatusFinished])
    /\ pc' = "return"
    /\ UNCHANGED << ovars, svars, rvars, bvars, completed, args, agent_pending, n_loops, tape, event, agent_tape, produced, obs_i,
                    this_round, agent_inputs, react_inputs, react_outputs, result >>

\* The while test fails: the generator returns without yielding anything.
LoopExit ==
    /\ demand /\ pc = "loop"
    /\ ~LoopCondition
    /\ pc' = "done"
    /\ Finish("StopIteration")
    /\ UNCHANGED << ovars, svars, rvars, bvars, completed, args, agent_pending, n_loops, tape, event, agent_tape, produced, obs_i,
                    events, this_round, agent_inputs, react_inputs,
                    react_outputs, last_final_tape >>

\* What an Agent turn may append: actions (thoughts), or a final step.
AgentSteps == {Action, FinalStep}

\* The tape of the Agent's completion event: the tape it was run on extended
\* with all the steps it produced this turn.
AgentFinalTape == tape \o produced

\* The Agent yields an event carrying one new step; main_loop relays it.
AgentYieldStep ==
    /\ demand /\ pc = "agent_next"
    /\ ~completed
    /\ Len(tape) + Len(produced) < MaxTapeLen
    /\ \E step \in AgentSteps :
          LET ev == AgentEvent(Some(step), None)
          IN  /\ event' = Some(ev)
              /\ produced' = Append(produced, step)
              /\ Yield([MainLoopEvent EXCEPT !.agent_event = Some(ev)])
    /\ pc' = "agent_resume"
    /\ UNCHANGED << ovars, svars, rvars, bvars, completed, args, agent_pending, n_loops, tape, agent_tape, obs_i, this_round,
                    agent_inputs, react_inputs, react_outputs, result >>

\* The Agent yields its completion event: the tape it was given extended with
\* the steps of this turn; main_loop relays it like any other agent event.
\* Against its contract the Agent's generator may hold a second completion
\* event behind this one (agent_pending).
AgentYieldFinal ==
    /\ demand /\ pc = "agent_next"
    /\ ~completed
    /\ completed' = TRUE
    /\ agent_pending' \in BOOLEAN
    /\ LET ev == AgentEvent(None, Some(AgentFinalTape))
       IN  /\ event' = Some(ev)
           /\ Yield([MainLoopEvent EXCEPT !.agent_event = Some(ev)])
    /\ pc' = "agent_resume"
    /\ UNCHANGED << ovars, svars, rvars, bvars, args, n_loops, tape, agent_tape, produced, obs_i, this_round,
                    agent_inputs, react_inputs, react_outputs, result >>

\* The for loop pulls the Agent again after a completion event that did not
\* break it (an empty final_tape): the Agent yields its second completion event.
AgentYieldSecondFinal ==
    /\ demand /\ pc = "agent_next"
    /\ completed /\ agent_pending
    /\ agent_pending' = FALSE
    /\ LET ev == AgentEvent(None, Some(AgentFinalTape))
       IN  /\ event' = Some(ev)
           /\ Yield([MainLoopEvent EXCEPT !.agent_event = Some(ev)])
    /\ pc' = "agent_resume"
    /\ UNCHANGED << ovars, svars, rvars, bvars, completed, args, n_loops, tape, agent_tape, produced, obs_i,
                    this_round, agent_inputs, react_inputs, react_outputs, result >>

\* The Agent's generator is exhausted: the for loop ends without a break.
AgentStop ==
    /\ demand /\ pc = "agent_next"
    /\ ~agent_pending
    /\ pc' = "after_for"
    /\ UNCHANGED << ovars, svars, rvars, bvars, completed, args, agent_pending, demand, n_loops, tape, event, agent_tape, produced,
                    obs_i, events, this_round, agent_inputs, react_inputs,
                    react_outputs, last_final_tape, result >>

\* if event.final_tape
BreakOnFinalTape == Truthy(Get(event).final_tape)

\* Resumed after relaying an agent event: `if event.final_tape: break`.  The
\* break drops the Agent's generator with whatever it had left to yield.
AgentResume ==
    /\ demand /\ pc = "agent_resume"
    /\ pc' = IF BreakOnFinalTape THEN "after_for" ELSE "agent_next"
    /\ agent_pending' = IF BreakOnFinalTape THEN FALSE ELSE agent_pending
    /\ UNCHANGED << ovars, svars, rvars, bvars, completed, args, demand, n_loops, tape, event, agent_tape, produced,
                    obs_i, events, this_round, agent_inputs, react_inputs,
                    react_outputs, last_final_tape, result >>

\* assert event and event.final_tape
AssertCompleted == IsSet(event) /\ Truthy(Get(event).final_tape)

\* The assertion holds: agent_tape = event.final_tape; yield agent_tape.
AgentTape ==
    /\ demand /\ pc = "after_for"
    /\ AssertCompleted
    /\ agent_tape' = Get(Get(event).final_tape)
    /\ Yield([MainLoopEvent EXCEPT !.agent_tape = Get(event).final_tape])
    /\ pc' = "after_agent_tape"
    /\ UNCHANGED << ovars, svars, rvars, bvars, completed, args, agent_pending, n_loops, tape, event, produced, obs_i, this_round,
                    agent_inputs, react_inputs, react_outputs, result >>

\* The assertion fails: AssertionError leaves the generator.
AssertFails ==
    /\ demand /\ pc = "after_for"
    /\ ~AssertCompleted
    /\ pc' = "failed"
    /\ Finish("AssertionError")
    /\ UNCHANGED << ovars, svars, rvars, bvars, completed, args, agent_pending, n_loops, tape, event, agent_tape, produced, obs_i,
                    events, this_round, agent_inputs, react_inputs,
                    react_outputs, last_final_tape >>

\* Mutant: the test looks at steps[0] instead of steps[-1]
AgentFinished_FirstStep == Len(agent_tape) > 0 /\ IsFinalStep(agent_tape[1])

\* if isinstance(agent_tape.steps[-1], FinalStep)
AgentFinished == LastIsFinal(agent_tape)

\* Mutant: the FINISHED event also carries the agent tape
EmitFinished_WithTape ==
    /\ demand /\ pc = "after_agent_tape"
    /\ LastIsFinal(agent_tape)
    /\ Yield([MainLoopEvent EXCEPT !.status = StatusFinished,
                                   !.agent_tape = Some(agent_tape)])
    /\ pc' = "return"
    /\ UNCHANGED << ovars, svars, rvars, bvars, completed, args, agent_pending, n_loops, tape, event, agent_tape, produced, obs_i,
                    this_round, agent_inputs, react_inputs, react_outputs, result >>

\* The Agent's tape ends with a FinalStep: yield FINISHED (return follows).
EmitFinished ==
    /\ demand /\ pc = "after_agent_tape"
    /\ AgentFinished
    /\ Yield([MainLoopEvent EXCEPT !.status = StatusFinished])
    /\ pc' = "return"
    /\ UNCHANGED << ovars, svars, rvars, bvars, completed, args, agent_pending, n_loops, tape, event, agent_tape, produced, obs_i,
                    this_round, agent_inputs, react_inputs, react_outputs, result >>

\* What environment.react may append: observations, or a final step.
EnvSteps == {Observation, FinalStep}

\* Sequences over S of length at most n
RECURSIVE SeqsUpTo(_, _)
SeqsUpTo(S, n) ==
    IF n <= 0 THEN {<< >>}
    ELSE LET shorter == SeqsUpTo(S, n - 1)
         IN  shorter \cup {Append(q, x) : q \in {r \in shorter : Len(r) = n - 1}, x \in S}

\* The tapes environment.react(t) may return: t with zero or more new steps
\* appended, or (breaking its contract) a tape shorter than t: t without its
\* last step, or the empty tape.
ReactTapes(t) ==
    {t \o x : x \in SeqsUpTo(EnvSteps, MaxTapeLen - Len(t))}
        \cup {SubSeq(t, 1, n) : n \in {0, Len(t) - 1} \cap (0 .. Len(t) - 1)}

ReactRaised(name) == [raised |-> name, tape |-> None]
ReactReturned(t) == [raised |-> "", tape |-> Some(t)]

\* tape = environment.react(agent_tape) returns.
React ==
    /\ demand /\ pc = "after_agent_tape"
    /\ ~AgentFinished
    /\ \E t \in ReactTapes(agent_tape) :
          /\ tape' = t
          /\ react_outputs' = Append(react_outputs, ReactReturned(t))
    /\ react_inputs' = Append(react_inputs, agent_tape)
    /\ obs_i' = 0
    /\ pc' = "observations"
    /\ UNCHANGED << ovars, svars, rvars, bvars, args, agent_pending, demand, n_loops, event, agent_tape, produced, completed,
                    events, this_round, agent_inputs, last_final_tape, result >>

\* Mutant: NoActionsToReactTo is not caught and leaves the generator
ReactNoActions_Uncaught ==
    /\ demand /\ pc = "after_agent_tape"
    /\ ~LastIsFinal(agent_tape)
    /\ react_inputs' = Append(react_inputs, agent_tape)
    /\ react_outputs' = Append(react_outputs, ReactRaised("NoActionsToReactTo"))
    /\ pc' = "failed"
    /\ Finish("NoActionsToReactTo")
    /\ UNCHANGED << ovars, svars, rvars, bvars, args, agent_pending, n_loops, tape, event, agent_tape, produced, completed,
                    obs_i, events, this_round, agent_inputs, last_final_tape >>

\* environment.react raises NoActionsToReactTo: yield NO_ACTIONS.
ReactNoActions ==
    /\ demand /\ pc = "after_agent_tape"
    /\ ~AgentFinished
    /\ react_inputs' = Append(react_inputs, agent_tape)
    /\ react_outputs' = Append(react_outputs, ReactRaised("NoActionsToReactTo"))
    /\ Yield([MainLoopEvent EXCEPT !.status = StatusNoActions])
    /\ pc' = "return"
    /\ UNCHANGED << ovars, svars, rvars, bvars, args, agent_pending, n_loops, tape, event, agent_tape, produced, completed,
                    obs_i, this_round, agent_inputs, result >>

\* Mutant: the handler of ExternalObservationNeeded yields NO_ACTIONS
ReactExternal_WrongStatus ==
    /\ demand /\ pc = "after_agent_tape"
    /\ ~LastIsFinal(agent_tape)
    /\ react_inputs' = Append(react_inputs, agent_tape)
    /\ react_outputs' = Append(react_outputs, ReactRaised("ExternalObservationNeeded"))
    /\ Yield([MainLoopEvent EXCEPT !.status = StatusNoActions])
    /\ pc' = "return"
    /\ UNCHANGED << ovars, svars, rvars, bvars, args, agent_pending, n_loops, tape, event, agent_tape, produced, completed,
                    obs_i, this_round, agent_inputs, result >>

\* environment.react raises ExternalObservationNeeded: yield EXTERNAL_INPUT_NEEDED.
ReactExternal ==
    /\ demand /\ pc = "after_agent_tape"
    /\ ~AgentFinished
    /\ react_inputs' = Append(react_inputs, agent_tape)
    /\ react_outputs' = Append(react_outputs, ReactRaised("ExternalObservationNeeded"))
    /\ Yield([MainLoopEvent EXCEPT !.status = StatusExternalInputNeeded])
    /\ pc' = "return"
    /\ UNCHANGED << ovars, svars, rvars, bvars, args, agent_pending, n_loops, tape, event, agent_tape, produced, completed,
                    obs_i, this_round, agent_inputs, result >>

\* tape[len(agent_tape):]
NewObservations == SubSeq(tape, Len(agent_tape) + 1, Len(tape))

\* for observation in tape[len(agent_tape):]: yield it
YieldObservation ==
    /\ demand /\ pc = "observations"
    /\ obs_i < Len(NewObservations)
    /\ Yield([MainLoopEvent EXCEPT !.observation = Some(NewObservations[obs_i + 1])])
    /\ obs_i' = obs_i + 1
    /\ UNCHANGED << ovars, svars, rvars, bvars, args, agent_pending, pc, n_loops, tape, event, agent_tape, produced, completed,
                    this_round, agent_inputs, react_inputs, react_outputs, result >>

\* Mutant: the env_tape event also carries the last observation
YieldEnvTape_WithObservation ==
    /\ demand /\ pc = "observations"
    /\ obs_i >= Len(NewObservations)
    /\ Yield([MainLoopEvent EXCEPT !.env_tape = Some(tape),
                                   !.observation = IF Len(tape) > 0
                                                   THEN Some(tape[Len(tape)]) ELSE None])
    /\ pc' = "after_env_tape"
    /\ UNCHANGED << ovars, svars, rvars, bvars, args, agent_pending, n_loops, tape, event, agent_tape, produced,
                    completed, obs_i, this_round, agent_inputs, react_inputs,
                    react_outputs, result >>

\* Mutant: a reaction that appended nothing is taken for NO_ACTIONS
YieldEnvTape_InfersNoActions ==
    /\ demand /\ pc = "observations"
    /\ obs_i >= Len(NewObservations)
    /\ IF tape = agent_tape
       THEN /\ Yield([MainLoopEvent EXCEPT !.status = StatusNoActions])
            /\ pc' = "return"
       ELSE /\ Yield([MainLoopEvent EXCEPT !.env_tape = Some(tape)])
            /\ pc' = "after_env_tape"
    /\ UNCHANGED << ovars, svars, rvars, bvars, args, agent_pending, n_loops, tape, event, agent_tape, produced, completed,
                    obs_i, this_round, agent_inputs, react_inputs, react_outputs,
                    result >>

\* The observations are through: yield env_tape.
YieldEnvTape ==
    /\ demand /\ pc = "observations"
    /\ obs_i >= Len(NewObservations)
    /\ Yield([MainLoopEvent EXCEPT !.env_tape = Some(tape)])
    /\ pc' = "after_env_tape"
    /\ UNCHANGED << ovars, svars, rvars, bvars, args, agent_pending, n_loops, tape, event, agent_tape, produced, completed,
                    obs_i, this_round, agent_inputs, react_inputs, react_outputs,
                    result >>

\* n_loops += 1, back to the while test.
NextRound ==
    /\ demand /\ pc = "after_env_tape"
    /\ n_loops' = n_loops + 1
    /\ pc' = "loop"
    /\ UNCHANGED << ovars, svars, rvars, bvars, args, agent_pending, demand, tape, event, agent_tape, produced, completed,
                    obs_i, events, this_round, agent_inputs, react_inputs,
                    react_outputs, last_final_tape, result >>

\* Mutant: the `return` after a status event is missing, so the generator
\* falls through to the code that follows the try block
Return_Missing ==
    /\ demand /\ pc = "return"
    /\ obs_i' = 0
    /\ pc' = "observations"
    /\ UNCHANGED << ovars, svars, rvars, bvars, args, agent_pending, demand, n_loops, tape, event, agent_tape, produced,
                    completed, events, this_round, agent_inputs, react_inputs,
                    react_outputs, last_final_tape, result >>

\* `return` after a status event: the next pull ends the stream.
Return ==
    /\ demand /\ pc = "return"
    /\ pc' = "done"
    /\ Finish("StopIteration")
    /\ UNCHANGED << ovars, svars, rvars, bvars, args, agent_pending, n_loops, tape, event, agent_tape, produced, completed,
                    obs_i, events, this_round, agent_inputs, react_inputs,
                    react_outputs, last_final_tape >>

\* ------------------------------------------------------------ specification
\* ------------------------------------------------------------ replay_tape
\* An action and an observation that differ from Action and Observation in
\* content only (steps of different classes differ in kind).
Action1 == Step("Action", "tool_call", 1)
Observation1 == Step("Observation", "observation", 1)

\* The steps a replayed Agent may yield, and those a replayed Environment may
\* append, when they are not the ones that recorded the tape.
ReplayAgentSteps == {Action, Action1, FinalStep}
ReplayEnvSteps == {Observation, Observation1, FinalStep}

\* The recorded tapes replay_tape is given
OldTapes == SeqsUpTo(Steps, MaxTapeLen)

\* isinstance(step, Observation)
IsObservation(step) == step.cls = "Observation"

\* step.llm_dict(): the kind tag and the content, without the step's class
llm_dict(step) == [kind |-> step.kind, payload |-> step.payload]

\* The longest leading run of Observation steps of a list of steps
\* (for step in steps: if isinstance(step, Observation): append else: break)
RECURSIVE LeadingObservations(_)
LeadingObservations(steps) ==
    IF Len(steps) = 0 \/ ~IsObservation(steps[1]) THEN << >>
    ELSE << steps[1] >> \o LeadingObservations(Tail(steps))

\* steps[n:] of a Python list (0-based, empty when n >= len)
From(steps, n) == SubSeq(steps, n + 1, Len(steps))

\* The comparison of a replayed Agent step with the recorded one:
\*   kind != old_kind -> kind mismatch; elif old_step_dict != step_dict -> mismatch
StepVerdict(new, old) ==
    IF llm_dict(new).kind # llm_dict(old).kind THEN "kind"
    ELSE IF llm_dict(old) # llm_dict(new) THEN "content"
    ELSE "ok"

\* The comparison of a regenerated observation: old_step_dict != step_dict
ObservationVerdict(new, old) ==
    IF llm_dict(old) # llm_dict(new) THEN "content" ELSE "ok"

Compared(pos, what, verdict) == [pos |-> pos, what |-> what, verdict |-> verdict]

Returned(b) == [returned |-> Some(b), raised |-> ""]
Raised(name) == [returned |-> None, raised |-> name]
NotReturned == [returned |-> None, raised |-> "pending"]

\* The recording run of main_loop, read as the Agent's and the Environment's
\* behaviour: what each did on the tape it was given.
AgentTapeEvents == SelectSeq(events, LAMBDA ev : IsSet(ev.agent_tape))
AgentOutput(k) == Get(AgentTapeEvents[k].agent_tape)
AgentRuns == {k \in DOMAIN agent_inputs : k <= Len(AgentTapeEvents)}

\* What the Agent that recorded the tape does on tape t (the steps it yields
\* before its completion event), None when t never occurred in the recording.
AgentScript(t) ==
    IF same_agent /\ \E k \in AgentRuns : agent_inputs[k] = t
    THEN LET k == CHOOSE k \in AgentRuns : agent_inputs[k] = t
         IN  Some(From(AgentOutput(k), Len(t)))
    ELSE None

\* What the Environment that recorded the tape does on tape t
EnvScript(t) ==
    IF same_agent /\ \E k \in DOMAIN react_inputs : react_inputs[k] = t
    THEN Some(react_outputs[CHOOSE k \in DOMAIN react_inputs : react_inputs[k] = t])
    ELSE None

\* `return b` / `raise`: replay_tape is over
RReturn(b) == r_pc' = "returned" /\ r_result' = Returned(b)
RRaise(name) == r_pc' = "raised" /\ r_result' = Raised(name)

\* Mutant: the test looks at reuse_observations the wrong way round
REnvRequired_WhenReusing == ~r_env /\ reuse_observations

\* if env is None and not reuse_observations: raise ValueError
REnvRequired == ~r_env /\ ~reuse_observations

RValueError ==
    /\ r_pc = "called"
    /\ REnvRequired
    /\ RRaise("ValueError")
    /\ UNCHANGED << ovars, svars, mlvars, bvars, r_args, r_match, r_new_tape, r_i, r_event, r_agent_tape,
                    r_produced, r_completed, r_obs, r_k, r_log, r_agent_inputs,
                    r_env_inputs >>

\* Mutant: a missing start_tape is taken to be the empty tape
StartTape_Empty == IF r_start = None THEN << >> ELSE Get(r_start)

\* start_tape as replay_tape uses it: the argument, or the leading
\* observations of the recorded tape
StartTape == IF r_start = None THEN LeadingObservations(r_tape) ELSE Get(r_start)

\* match = True; start_tape; event = None; new_tape = start_tape; i = len(start_tape)
RBegin ==
    /\ r_pc = "called"
    /\ ~REnvRequired
    /\ r_match' = TRUE
    /\ r_event' = None
    /\ r_new_tape' = StartTape
    /\ r_i' = Len(StartTape)
    /\ r_pc' = "while"
    /\ UNCHANGED << ovars, svars, mlvars, bvars, r_args, r_agent_tape, r_produced, r_completed, r_obs, r_k,
                    r_result, r_log, r_agent_inputs, r_env_inputs >>

\* Mutant: the replay ends as soon as a mismatch has been recorded
RWhileCondition_UntilMismatch == r_i < Len(r_tape) /\ r_match

\* while i < len(tape)
RWhileCondition == r_i < Len(r_tape)

\* The while test holds: agent.run(new_tape) is called.
RWhileEnter ==
    /\ r_pc = "while"
    /\ RWhileCondition
    /\ Len(r_agent_inputs) < MaxTurns
    /\ r_agent_inputs' = Append(r_agent_inputs, r_new_tape)
    /\ r_produced' = << >>
    /\ r_completed' = FALSE
    /\ r_pc' = "agent_next"
    /\ UNCHANGED << ovars, svars, mlvars, bvars, r_args, r_match, r_new_tape, r_i, r_event, r_agent_tape,
                    r_obs, r_k, r_result, r_log, r_env_inputs >>

\* The while test fails: return match.
RWhileExit ==
    /\ r_pc = "while"
    /\ ~RWhileCondition
    /\ RReturn(r_match)
    /\ UNCHANGED << ovars, svars, mlvars, bvars, r_args, r_match, r_new_tape, r_i, r_event, r_agent_tape,
                    r_produced, r_completed, r_obs, r_k, r_log, r_agent_inputs,
                    r_env_inputs >>

\* The script of the running Agent turn, when the Agent is the recording one
RunningScript == AgentScript(r_agent_inputs[Len(r_agent_inputs)])

\* The steps the Agent may yield next
AgentNextSteps ==
    IF IsSet(RunningScript)
    THEN IF Len(r_produced) < Len(Get(RunningScript))
         THEN {Get(RunningScript)[Len(r_produced) + 1]} ELSE {}
    ELSE ReplayAgentSteps

\* Mutant: a mismatch never stops the replay (stop_on_mismatch is ignored)
RAgentStep_NoStop ==
    /\ r_pc = "agent_next"
    /\ ~r_completed
    /\ \E step \in AgentNextSteps :
          /\ r_event' = Some(AgentEvent(Some(step), None))
          /\ r_produced' = Append(r_produced, step)
          /\ IF r_i >= Len(r_tape)
             THEN /\ RRaise("IndexError")
                  /\ UNCHANGED << r_i, r_match, r_log >>
             ELSE LET verdict == StepVerdict(step, r_tape[r_i + 1])
                  IN  /\ r_log' = Append(r_log, Compared(r_i, "step", verdict))
                      /\ r_i' = r_i + 1
                      /\ r_match' = (r_match /\ verdict = "ok")
                      /\ UNCHANGED << r_pc, r_result >>
    /\ UNCHANGED << ovars, svars, mlvars, bvars, r_args, r_new_tape, r_agent_tape, r_completed, r_obs, r_k,
                    r_agent_inputs, r_env_inputs >>

\* The Agent yields an event carrying a step: it is compared with the recorded
\* step at position i (tape.steps[i] raises IndexError past the end).
RAgentStep ==
    /\ r_pc = "agent_next"
    /\ ~r_completed
    /\ \E step \in AgentNextSteps :
          /\ r_event' = Some(AgentEvent(Some(step), None))
          /\ r_produced' = Append(r_produced, step)
          /\ IF r_i >= Len(r_tape)
             THEN /\ RRaise("IndexError")
                  /\ UNCHANGED << r_i, r_match, r_log >>
             ELSE LET verdict == StepVerdict(step, r_tape[r_i + 1])
                  IN  /\ r_log' = Append(r_log, Compared(r_i, "step", verdict))
                      /\ r_i' = r_i + 1
                      /\ r_match' = (r_match /\ verdict = "ok")
                      /\ IF verdict # "ok" /\ stop_on_mismatch
                         THEN RReturn(FALSE)
                         ELSE UNCHANGED << r_pc, r_result >>
    /\ UNCHANGED << ovars, svars, mlvars, bvars, r_args, r_new_tape, r_agent_tape, r_completed, r_obs, r_k,
                    r_agent_inputs, r_env_inputs >>

\* The Agent yields its completion event (the tape it was run on extended with
\* the steps of this turn): `if event.final_tape: break`.
RAgentFinal ==
    /\ r_pc = "agent_next"
    /\ ~r_completed
    /\ IsSet(RunningScript) => Len(r_produced) = Len(Get(RunningScript))
    /\ r_completed' = TRUE
    /\ LET final == Some(r_new_tape \o r_produced)
       IN  /\ r_event' = Some(AgentEvent(None, final))
           /\ r_pc' = IF Truthy(final) THEN "after_for" ELSE "agent_next"
    /\ UNCHANGED << ovars, svars, mlvars, bvars, r_args, r_match, r_new_tape, r_i, r_agent_tape, r_produced,
                    r_obs, r_k, r_result, r_log, r_agent_inputs, r_env_inputs >>

\* assert event and event.final_tape
RAssertCompleted == IsSet(r_event) /\ Truthy(Get(r_event).final_tape)

\* event.final_tape once the assertion holds
RFinalTape == Get(Get(r_event).final_tape)

\* The Agent's generator is exhausted: the for loop ends without a break, and
\* the assertion after it raises AssertionError unless the last event the
\* loop variable holds carries a non-empty final_tape.
RAgentStop ==
    /\ r_pc = "agent_next"
    /\ IsSet(RunningScript) => r_completed
    /\ IF RAssertCompleted
       THEN r_pc' = "after_for" /\ UNCHANGED r_result
       ELSE RRaise("AssertionError")
    /\ UNCHANGED << ovars, svars, mlvars, bvars, r_args, r_match, r_new_tape, r_i, r_event, r_agent_tape,
                    r_produced, r_completed, r_obs, r_k, r_log, r_agent_inputs,
                    r_env_inputs >>

\* Mutant: an Agent turn that ends with a FinalStep makes the replay succeed
RAgentFinished_ReturnsTrue ==
    /\ r_pc = "after_for"
    /\ RAssertCompleted
    /\ LastIsFinal(RFinalTape)
    /\ r_agent_tape' = RFinalTape
    /\ RReturn(TRUE)
    /\ UNCHANGED << ovars, svars, mlvars, bvars, r_args, r_match, r_new_tape, r_i, r_event, r_produced,
                    r_completed, r_obs, r_k, r_log, r_agent_inputs, r_env_inputs >>

\* agent_tape ends with a FinalStep: break out of the while loop, return match.
RAgentFinished ==
    /\ r_pc = "after_for"
    /\ RAssertCompleted
    /\ LastIsFinal(RFinalTape)
    /\ r_agent_tape' = RFinalTape
    /\ RReturn(r_match)
    /\ UNCHANGED << ovars, svars, mlvars, bvars, r_args, r_match, r_new_tape, r_i, r_event, r_produced,
                    r_completed, r_obs, r_k, r_log, r_agent_inputs, r_env_inputs >>

\* Mutant: every recorded step after agent_tape is reused, whatever its class
ReusedObservations_All(t) == From(r_tape, Len(t))

\* The observations reused from the recorded tape after agent_tape:
\* the leading observations of tape.steps[len(agent_tape):]
ReusedObservations(t) == LeadingObservations(From(r_tape, Len(t)))

\* reuse_observations: new_tape = agent_tape + observations; i += len(observations)
RReuse ==
    /\ r_pc = "after_for"
    /\ RAssertCompleted
    /\ ~LastIsFinal(RFinalTape)
    /\ reuse_observations
    /\ r_agent_tape' = RFinalTape
    /\ r_new_tape' = RFinalTape \o ReusedObservations(RFinalTape)
    /\ r_i' = r_i + Len(ReusedObservations(RFinalTape))
    /\ r_pc' = "while"
    /\ UNCHANGED << ovars, svars, mlvars, bvars, r_args, r_match, r_event, r_produced, r_completed, r_obs,
                    r_k, r_result, r_log, r_agent_inputs, r_env_inputs >>

\* The steps a replayed Environment may append in one reaction: up to
\* MaxNewObservations steps, and one more Observation when the last of them
\* is a FinalStep (an Environment that goes on after its FinalStep).
ReplayNewSteps ==
    LET short == SeqsUpTo(ReplayEnvSteps, MaxNewObservations)
    IN  short \cup {Append(x, Observation) : x \in {y \in short : LastIsFinal(y)}}

\* What env.react(t) may do in a replay: return t extended with new steps,
\* or raise one of the Environment's exceptions; the recording Environment
\* does what it did on t in the recording.
ReplayReactOutcomes(t) ==
    IF IsSet(EnvScript(t)) THEN {Get(EnvScript(t))}
    ELSE {ReactReturned(t \o x) : x \in ReplayNewSteps}
            \cup {ReactRaised("NoActionsToReactTo"),
                  ReactRaised("ExternalObservationNeeded")}

\* else: new_tape = env.react(agent_tape); observations = new_tape.steps[len(agent_tape):]
\* An exception of env.react is not caught by replay_tape.
RReact ==
    /\ r_pc = "after_for"
    /\ RAssertCompleted
    /\ ~LastIsFinal(RFinalTape)
    /\ ~reuse_observations
    /\ r_agent_tape' = RFinalTape
    /\ r_env_inputs' = Append(r_env_inputs, RFinalTape)
    /\ \E out \in ReplayReactOutcomes(RFinalTape) :
          IF out.raised # ""
          THEN /\ RRaise(out.raised)
               /\ UNCHANGED << r_new_tape, r_obs, r_k >>
          ELSE /\ r_new_tape' = Get(out.tape)
               /\ r_obs' = From(Get(out.tape), Len(RFinalTape))
               /\ r_k' = 0
               /\ r_pc' = IF Len(Get(out.tape)) > Len(RFinalTape)
                               THEN "observations" ELSE "while"
               /\ UNCHANGED r_result
    /\ UNCHANGED << ovars, svars, mlvars, bvars, r_args, r_match, r_i, r_event, r_produced, r_completed,
                    r_log, r_agent_inputs >>

\* for observation in observations: compare it with the recorded step at i;
\* a FinalStep observation, or the last one, ends the for loop.
RObservation ==
    /\ r_pc = "observations"
    /\ r_k < Len(r_obs)
    /\ LET observation == r_obs[r_k + 1]
       IN  IF r_i >= Len(r_tape)
           THEN /\ RRaise("IndexError")
                /\ UNCHANGED << r_i, r_match, r_log, r_k >>
           ELSE LET verdict == ObservationVerdict(observation, r_tape[r_i + 1])
                IN  /\ r_log' = Append(r_log, Compared(r_i, "observation", verdict))
                    /\ r_i' = r_i + 1
                    /\ r_match' = (r_match /\ verdict = "ok")
                    /\ IF verdict # "ok" /\ stop_on_mismatch
                       THEN RReturn(FALSE) /\ UNCHANGED r_k
                       ELSE /\ r_pc' = IF IsFinalStep(observation) \/ r_k + 1 >= Len(r_obs)
                                       THEN "while" ELSE "observations"
                            /\ r_k' = r_k + 1
                            /\ UNCHANGED r_result
    /\ UNCHANGED << ovars, svars, mlvars, bvars, r_args, r_new_tape, r_event, r_agent_tape, r_produced,
                    r_completed, r_obs, r_agent_inputs, r_env_inputs >>

\* The locals of replay_tape before it is called
ReplayLocalsInit ==
    /\ r_match = TRUE
    /\ r_new_tape = << >>
    /\ r_i = 0
    /\ r_event = None
    /\ r_agent_tape = << >>
    /\ r_produced = << >>
    /\ r_completed = FALSE
    /\ r_obs = << >>
    /\ r_k = 0
    /\ r_result = NotReturned
    /\ r_log = << >>
    /\ r_agent_inputs = << >>
    /\ r_env_inputs = << >>

\* replay_tape is not in use
ReplayIdle ==
    /\ r_tape = << >>
    /\ r_env = FALSE
    /\ r_start = None
    /\ reuse_observations = FALSE
    /\ stop_on_mismatch = FALSE
    /\ same_agent = FALSE
    /\ r_pc = "idle"
    /\ ReplayLocalsInit

\* replay_tapes is not in use
BatchIdle ==
    /\ b_tapes = << >>
    /\ b_pc = "idle"
    /\ b_i = 0
    /\ ok = 0
    /\ fails = 0
    /\ b_outcomes = << >>
    /\ b_result = NotReturned

\* No second stream is in use
StreamsIdle ==
    /\ s_start = << >>
    /\ s_max = << >>
    /\ s_pc = << >>
    /\ s_n = << >>
    /\ s_tape = << >>
    /\ s_k = << >>
    /\ s_events = << >>
    /\ a_final = 0
    /\ e_silent = 0

\* No MainLoopStream is being drained
DrainIdle ==
    /\ g_events = << >>
    /\ g_end = "StopIteration"
    /\ g_pos = 0
    /\ g_finished = FALSE
    /\ d_pc = "idle"
    /\ d_pulled = 0
    /\ d_last = None
    /\ d_results = << >>

\* The names of the wrapped tools, and the threads of a process
FnNames == {"f", "g"}
Threads == {1, 2}

\* The tool cache is not in use
CacheIdle ==
    /\ c_forced = FALSE
    /\ c_fdir = << >>
    /\ c_pid = 0
    /\ c_cache = [fn \in FnNames |-> 0]
    /\ c_heap = << >>
    /\ c_files = << >>
    /\ t_pc = [th \in Threads |-> "idle"]
    /\ t_call = << >>
    /\ t_result = << >>
    /\ t_dict = [th \in Threads |-> 0]
    /\ c_calls = << >>
    /\ c_invoked = << >>
    /\ c_loaded = << >>

\* The tape browser is not in use
BrowserIdle ==
    /\ tb_folder = << >>
    /\ tb_files = << >>
    /\ tb_index = << >>
    /\ tb_children = << >>
    /\ tb_selected = 0
    /\ tb_tapes = << >>
    /\ tb_loads = 0
    /\ tb_out = << >>

OthersIdle == DrainIdle /\ CacheIdle /\ BrowserIdle

\* The prefixes of a tape
Prefixes(t) == {SubSeq(t, 1, n) : n \in 0 .. Len(t)}

\* The start tape replay_tape is given, when it is given one: the first
\* MaxStartLen steps of the recorded tape
ReplayStartTapes(t) == {p \in Prefixes(t) : Len(p) = MaxStartLen \/ (p = t /\ Len(t) < MaxStartLen)}

\* replay_tape's steps
ReplayNext ==
    \/ RValueError
    \/ RBegin
    \/ RWhileEnter
    \/ RWhileExit
    \/ RAgentStep
    \/ RAgentFinal
    \/ RAgentStop
    \/ RAgentFinished
    \/ RReuse
    \/ RReact
    \/ RObservation

StartTapes == SeqsUpTo({Observation}, MaxStartLen)

\* The locals of main_loop before its first statement runs
MainLoopLocalsInit ==
    /\ demand = FALSE
    /\ n_loops = 0
    /\ tape = start_tape
    /\ event = None
    /\ agent_tape = << >>
    /\ produced = << >>
    /\ completed = FALSE
    /\ agent_pending = FALSE
    /\ obs_i = 0
    /\ events = << >>
    /\ this_round = 1
    /\ agent_inputs = << >>
    /\ react_inputs = << >>
    /\ react_outputs = << >>
    /\ last_final_tape = None
    /\ result = NoResult

\* main_loop is not in use
MainLoopIdle ==
    /\ max_loops = 0
    /\ start_tape = << >>
    /\ pc = "idle"
    /\ MainLoopLocalsInit

Init ==
    /\ max_loops \in -1 .. MaxRounds
    /\ start_tape \in StartTapes
    /\ pc = "loop"
    /\ ReplayIdle
    /\ BatchIdle
    /\ StreamsIdle
    /\ OthersIdle
    /\ demand = FALSE
    /\ n_loops = 0
    /\ tape = start_tape
    /\ event = None
    /\ agent_tape = << >>
    /\ produced = << >>
    /\ completed = FALSE
    /\ agent_pending = FALSE
    /\ obs_i = 0
    /\ events = << >>
    /\ this_round = 1
    /\ agent_inputs = << >>
    /\ react_inputs = << >>
    /\ react_outputs = << >>
    /\ last_final_tape = None
    /\ result = NoResult

Next ==
    \/ Pull
    \/ LoopEnter
    \/ LoopExit
    \/ AgentYieldStep
    \/ AgentYieldFinal
    \/ AgentYieldSecondFinal
    \/ AgentStop
    \/ AgentResume
    \/ AgentTape
    \/ AssertFails
    \/ EmitFinished
    \/ React
    \/ ReactNoActions
    \/ ReactExternal
    \/ YieldObservation
    \/ YieldEnvTape
    \/ NextRound
    \/ Return

Spec == Init /\ [][Next]_vars

\* main_loop called with a finite budget, with a consumer that keeps pulling
\* while the stream is not exhausted and with Agent and Environment calls that
\* each return: whenever a step of the generator or a pull is possible, one is
\* taken.
FiniteBudgetInit == Init /\ max_loops >= 0

FairSpec == FiniteBudgetInit /\ [][Next]_vars /\ WF_vars(Next)

\* replay_tape called on an arbitrary recorded tape, with an Agent and an
\* Environment that need not be the ones that recorded it.
ReplayInit ==
    /\ MainLoopIdle
    /\ r_tape \in OldTapes
    /\ r_env \in BOOLEAN
    /\ r_start \in {None} \cup {Some(t) : t \in ReplayStartTapes(r_tape)}
    /\ reuse_observations \in BOOLEAN
    /\ stop_on_mismatch \in BOOLEAN
    /\ same_agent = FALSE
    /\ r_pc = "called"
    /\ ReplayLocalsInit
    /\ BatchIdle
    /\ StreamsIdle
    /\ OthersIdle

ReplaySpec == ReplayInit /\ [][ReplayNext]_vars

\* The recording run of main_loop ended with a tape, and what the Agent and
\* the Environment did in it is the behaviour of a deterministic Agent and a
\* deterministic Environment that keep their contracts: the same tape gets
\* the same answer, and the answer extends the tape.
RecordingValid ==
    /\ pc = "done"
    /\ IsSet(result.returned)
    /\ Len(AgentTapeEvents) = Len(agent_inputs)
    /\ \A k \in AgentRuns : IsPrefix(agent_inputs[k], AgentOutput(k))
    /\ \A j, k \in AgentRuns :
          agent_inputs[j] = agent_inputs[k] => AgentOutput(j) = AgentOutput(k)
    /\ \A k \in DOMAIN react_inputs :
          IsSet(react_outputs[k].tape) => IsPrefix(react_inputs[k], Get(react_outputs[k].tape))
    /\ \A j, k \in DOMAIN react_inputs :
          react_inputs[j] = react_inputs[k] => react_outputs[j] = react_outputs[k]

\* replay_tape(agent, tape, env, ...) called on the tape main_loop produced,
\* with the Agent and the Environment of the recording.
ReplayRecorded ==
    /\ r_pc = "idle"
    /\ RecordingValid
    /\ r_tape' = Get(result.returned)
    /\ r_env' = TRUE
    /\ r_start' \in {None, Some(start_tape)}
    /\ reuse_observations' \in BOOLEAN
    /\ stop_on_mismatch' \in BOOLEAN
    /\ same_agent' = TRUE
    /\ r_pc' = "called"
    /\ UNCHANGED << ovars, svars, mlvars, bvars, r_match, r_new_tape, r_i, r_event, r_agent_tape, r_produced,
                    r_completed, r_obs, r_k, r_result, r_log, r_agent_inputs,
                    r_env_inputs >>

\* A run of main_loop, then the replay of the tape it produced
RecordReplayNext ==
    \/ Next
    \/ ReplayRecorded
    \/ RBegin
    \/ RWhileEnter
    \/ RWhileExit
    \/ RAgentStep
    \/ RAgentFinal
    \/ RAgentStop
    \/ RAgentFinished
    \/ RReuse
    \/ RReact
    \/ RObservation

RecordReplaySpec == Init /\ [][RecordReplayNext]_vars

\* ----------------------------------------------------------- replay_tapes
\* for i, tape in enumerate(tapes): replay_tape(agent, tape, env,
\* reuse_observations=reuse_observations) is called, with its defaults
\* start_tape=None and stop_on_mismatch=True and with fresh locals.
BNextTape ==
    /\ b_pc = "loop"
    /\ b_i < Len(b_tapes)
    /\ b_pc' = "replaying"
    /\ r_tape' = b_tapes[b_i + 1]
    /\ r_start' = None
    /\ stop_on_mismatch' = TRUE
    /\ r_pc' = "called"
    /\ r_match' = TRUE
    /\ r_new_tape' = << >>
    /\ r_i' = 0
    /\ r_event' = None
    /\ r_agent_tape' = << >>
    /\ r_produced' = << >>
    /\ r_completed' = FALSE
    /\ r_obs' = << >>
    /\ r_k' = 0
    /\ r_result' = NotReturned
    /\ r_log' = << >>
    /\ r_agent_inputs' = << >>
    /\ r_env_inputs' = << >>
    /\ UNCHANGED << ovars, svars, mlvars, r_env, reuse_observations, same_agent, b_tapes, b_i, ok,
                    fails, b_outcomes, b_result >>

\* replay_tape returned True: ok += 1
BTapeOk ==
    /\ b_pc = "replaying"
    /\ r_result = Returned(TRUE)
    /\ ok' = ok + 1
    /\ b_i' = b_i + 1
    /\ b_outcomes' = Append(b_outcomes, r_result)
    /\ b_pc' = "loop"
    /\ UNCHANGED << ovars, svars, mlvars, rvars, b_tapes, fails, b_result >>

\* Mutant: a mismatching tape is counted as ok
BTapeFails_CountedOk ==
    /\ b_pc = "replaying"
    /\ r_result = Returned(FALSE)
    /\ ok' = ok + 1
    /\ b_i' = b_i + 1
    /\ b_outcomes' = Append(b_outcomes, r_result)
    /\ b_pc' = "loop"
    /\ UNCHANGED << ovars, svars, mlvars, rvars, b_tapes, fails, b_result >>

\* replay_tape returned False: raise FatalError("Tape mismatch"), caught by
\* `except FatalError`: fails += 1
BTapeFails ==
    /\ b_pc = "replaying"
    /\ r_result = Returned(FALSE)
    /\ fails' = fails + 1
    /\ b_i' = b_i + 1
    /\ b_outcomes' = Append(b_outcomes, r_result)
    /\ b_pc' = "loop"
    /\ UNCHANGED << ovars, svars, mlvars, rvars, b_tapes, ok, b_result >>

\* replay_tape raised: the exception is not a FatalError, `except FatalError`
\* does not catch it and it leaves replay_tapes.
BTapeRaises ==
    /\ b_pc = "replaying"
    /\ r_pc = "raised"
    /\ b_outcomes' = Append(b_outcomes, r_result)
    /\ b_pc' = "raised"
    /\ b_result' = Raised(r_result.raised)
    /\ UNCHANGED << ovars, svars, mlvars, rvars, b_tapes, b_i, ok, fails >>

\* The for loop is exhausted: return fails
BReturn ==
    /\ b_pc = "loop"
    /\ b_i >= Len(b_tapes)
    /\ b_pc' = "returned"
    /\ b_result' = Returned(fails)
    /\ UNCHANGED << ovars, svars, mlvars, rvars, b_tapes, b_i, ok, fails, b_outcomes >>

\* The recorded tapes a batch is made of
BatchTapes == {t \in OldTapes : Len(t) <= MaxBatchTapeLen}

RECURSIVE ListsUpTo(_, _)
ListsUpTo(S, n) ==
    IF n = 0 THEN {<< >>}
    ELSE LET shorter == ListsUpTo(S, n - 1)
         IN  shorter \cup {Append(l, x) : l \in shorter, x \in S}

\* replay_tapes(agent, tapes, env, reuse_observations) called: ok = 0; fails = 0
BatchInit ==
    /\ MainLoopIdle
    /\ r_tape = << >>
    /\ r_env \in BOOLEAN
    /\ r_start = None
    /\ reuse_observations \in BOOLEAN
    /\ stop_on_mismatch = TRUE
    /\ same_agent = FALSE
    /\ r_pc = "idle"
    /\ ReplayLocalsInit
    /\ b_tapes \in ListsUpTo(BatchTapes, MaxTapes)
    /\ b_pc = "loop"
    /\ b_i = 0
    /\ ok = 0
    /\ fails = 0
    /\ b_outcomes = << >>
    /\ b_result = NotReturned
    /\ StreamsIdle
    /\ OthersIdle

BatchNext ==
    \/ BNextTape
    \/ BTapeOk
    \/ BTapeFails
    \/ BTapeRaises
    \/ BReturn
    \/ ReplayNext

BatchSpec == BatchInit /\ [][BatchNext]_vars

\* ------------------------------------------------------------ two streams
Streams == {1, 2}

\* The steps the stateless Agent appends in a turn on tape t
DetAgentSteps(t) == IF Len(t) + 1 >= a_final THEN << FinalStep >> ELSE << Action >>

\* What the stateless Environment does on tape t
DetReact(t) ==
    IF Len(t) >= e_silent THEN ReactRaised("NoActionsToReactTo")
    ELSE ReactReturned(t \o << Observation >>)

\* The tape the Agent's turn on t completes with
DetAgentTape(t) == t \o DetAgentSteps(t)

\* The round ends the stream: FinalStep, or the Environment's exception
RoundIsTerminal(t) ==
    LastIsFinal(DetAgentTape(t)) \/ DetReact(DetAgentTape(t)).raised # ""

\* tape = environment.react(agent_tape) of a round that goes on
RoundTape(t) == Get(DetReact(DetAgentTape(t)).tape)

\* The events one round of the loop body yields on tape t, in order
RoundEvents(t) ==
    LET at == DetAgentTape(t)
        steps == DetAgentSteps(t)
        agentPart ==
            [i \in 1 .. Len(steps) |->
                [MainLoopEvent EXCEPT !.agent_event = Some(AgentEvent(Some(steps[i]), None))]]
            \o << [MainLoopEvent EXCEPT !.agent_event = Some(AgentEvent(None, Some(at)))],
                  [MainLoopEvent EXCEPT !.agent_tape = Some(at)] >>
    IN  IF LastIsFinal(at)
        THEN agentPart \o << [MainLoopEvent EXCEPT !.status = StatusFinished] >>
        ELSE IF DetReact(at).raised # ""
        THEN agentPart \o << [MainLoopEvent EXCEPT !.status = StatusNoActions] >>
        ELSE LET observations == From(RoundTape(t), Len(at))
             IN  agentPart
                 \o [i \in 1 .. Len(observations) |->
                        [MainLoopEvent EXCEPT !.observation = Some(observations[i])]]
                 \o << [MainLoopEvent EXCEPT !.env_tape = Some(RoundTape(t))] >>

\* Mutant: every stream counts its rounds in the counter of stream 1
Counter_Shared(s) == 1

\* n_loops is a local of the generator a call of main_loop creates: stream s
\* counts its rounds in its own counter
Counter(s) == s

\* while n_loops < max_loops or max_loops == -1, in stream s
SLoopCondition(s) == s_n[Counter(s)] < s_max[s] \/ s_max[s] = -1

\* Stream s enters the loop body: agent.run(tape)
SRoundStart(s) ==
    /\ s_pc[s] = "loop"
    /\ SLoopCondition(s)
    /\ s_pc' = [s_pc EXCEPT ![s] = "round"]
    /\ s_k' = [s_k EXCEPT ![s] = 0]
    /\ UNCHANGED << ovars, mlvars, rvars, bvars, s_start, s_max, s_n, s_tape, s_events,
                    a_final, e_silent >>

\* The while test of stream s fails: its generator ends
SLoopExit(s) ==
    /\ s_pc[s] = "loop"
    /\ ~SLoopCondition(s)
    /\ s_pc' = [s_pc EXCEPT ![s] = "done"]
    /\ UNCHANGED << ovars, mlvars, rvars, bvars, s_start, s_max, s_n, s_tape, s_k, s_events,
                    a_final, e_silent >>

\* A pull on stream s gets the next event of its running round
SYield(s) ==
    /\ s_pc[s] = "round"
    /\ s_k[s] < Len(RoundEvents(s_tape[s]))
    /\ s_events' = [s_events EXCEPT ![s] = Append(@, RoundEvents(s_tape[s])[s_k[s] + 1])]
    /\ s_k' = [s_k EXCEPT ![s] = @ + 1]
    /\ UNCHANGED << ovars, mlvars, rvars, bvars, s_start, s_max, s_pc, s_n, s_tape,
                    a_final, e_silent >>

\* After the last event of a round of stream s: return after a terminal
\* status, else tape = env tape; n_loops += 1
SRoundEnd(s) ==
    /\ s_pc[s] = "round"
    /\ s_k[s] = Len(RoundEvents(s_tape[s]))
    /\ IF RoundIsTerminal(s_tape[s])
       THEN /\ s_pc' = [s_pc EXCEPT ![s] = "done"]
            /\ UNCHANGED << s_n, s_tape >>
       ELSE /\ s_pc' = [s_pc EXCEPT ![s] = "loop"]
            /\ s_tape' = [s_tape EXCEPT ![s] = RoundTape(s_tape[s])]
            /\ s_n' = [s_n EXCEPT ![Counter(s)] = @ + 1]
    /\ UNCHANGED << ovars, mlvars, rvars, bvars, s_start, s_max, s_k, s_events,
                    a_final, e_silent >>

\* Two calls of main_loop on different start tapes: n_loops = 0; tape = start_tape
TwoStreamInit ==
    /\ MainLoopIdle
    /\ ReplayIdle
    /\ BatchIdle
    /\ OthersIdle
    /\ s_start \in [Streams -> StartTapes]
    /\ s_start[1] # s_start[2]
    /\ s_max \in [Streams -> -1 .. MaxRounds]
    /\ s_pc = [s \in Streams |-> "loop"]
    /\ s_n = [s \in Streams |-> 0]
    /\ s_tape = s_start
    /\ s_k = [s \in Streams |-> 0]
    /\ s_events = [s \in Streams |-> << >>]
    /\ a_final \in 1 .. MaxTapeLen + 1
    /\ e_silent \in 1 .. MaxTapeLen + 1

\* Any interleaving of the steps of the two streams
TwoStreamNext ==
    \E s \in Streams :
        \/ SRoundStart(s)
        \/ SLoopExit(s)
        \/ SYield(s)
        \/ SRoundEnd(s)

TwoStreamSpec == TwoStreamInit /\ [][TwoStreamNext]_vars

\* ---------------------------------------------------------- MainLoopStream
\* The events a stream may carry: a tape event of the Agent, tape events of
\* the Environment (one with an empty tape), an observation event and a
\* status event.
StreamEvents ==
    { [MainLoopEvent EXCEPT !.agent_tape = Some(<< Observation >>)],
      [MainLoopEvent EXCEPT !.env_tape = Some(<< Observation, Observation >>)],
      [MainLoopEvent EXCEPT !.env_tape = Some(<< >>)],
      [MainLoopEvent EXCEPT !.observation = Some(Observation)],
      [MainLoopEvent EXCEPT !.status = StatusFinished] }

\* How a generator may end: by returning, or by an exception
GeneratorEnds == {"StopIteration", "AssertionError"}

\* next(self.generator) yields the generator's next event
GenYields == ~g_finished /\ g_pos < Len(g_events)

\* next(self.generator) raises: StopIteration from a generator that has
\* finished or returns now, else the exception the generator ends with
GenRaises == IF g_finished THEN "StopIteration" ELSE g_end

\* The caller pulls one event itself: next(stream).
DCallerPull ==
    /\ d_pc = "caller"
    /\ GenYields
    /\ g_pos' = g_pos + 1
    /\ d_pulled' = d_pulled + 1
    /\ UNCHANGED << mlvars, rvars, bvars, svars, cvars, wvars, g_events, g_end, g_finished, d_pc,
                    d_last, d_results >>

\* Mutant: last_final_tape is kept from the call before
DGftCall_KeepsLast ==
    /\ d_pc = "caller"
    /\ Len(d_results) < MaxCalls
    /\ d_pc' = "gft"
    /\ UNCHANGED << mlvars, rvars, bvars, svars, cvars, wvars, g_events, g_end, g_pos, g_finished,
                    d_pulled, d_last, d_results >>

\* The caller calls stream.get_final_tape(): last_final_tape = None.
DGftCall ==
    /\ d_pc = "caller"
    /\ Len(d_results) < MaxCalls
    /\ d_pc' = "gft"
    /\ d_last' = None
    /\ UNCHANGED << mlvars, rvars, bvars, svars, cvars, wvars, g_events, g_end, g_pos, g_finished,
                    d_pulled, d_results >>

\* for event in self: one pass of the loop body on the next event.
DGftEvent ==
    /\ d_pc = "gft"
    /\ GenYields
    /\ g_pos' = g_pos + 1
    /\ d_last' = GftStep(d_last, g_events[g_pos + 1])
    /\ UNCHANGED << mlvars, rvars, bvars, svars, cvars, wvars, g_events, g_end, g_finished, d_pc,
                    d_pulled, d_results >>

\* The for loop ends on StopIteration: return last_final_tape or raise
\* ValueError.
DGftReturn ==
    /\ d_pc = "gft"
    /\ ~GenYields
    /\ GenRaises = "StopIteration"
    /\ g_finished' = TRUE
    /\ d_results' = Append(d_results, GftFinish(d_last))
    /\ d_pc' = "caller"
    /\ UNCHANGED << mlvars, rvars, bvars, svars, cvars, wvars, g_events, g_end, g_pos, d_pulled, d_last >>

\* The generator raises: the exception passes through get_final_tape.
DGftRaise ==
    /\ d_pc = "gft"
    /\ ~GenYields
    /\ GenRaises # "StopIteration"
    /\ g_finished' = TRUE
    /\ d_results' = Append(d_results, [returned |-> None, raised |-> GenRaises])
    /\ d_pc' = "caller"
    /\ UNCHANGED << mlvars, rvars, bvars, svars, cvars, wvars, g_events, g_end, g_pos, d_pulled, d_last >>

DrainInit ==
    /\ MainLoopIdle
    /\ ReplayIdle
    /\ BatchIdle
    /\ StreamsIdle
    /\ CacheIdle
    /\ BrowserIdle
    /\ g_events \in SeqsUpTo(StreamEvents, MaxStreamLen)
    /\ g_end \in GeneratorEnds
    /\ g_pos = 0
    /\ g_finished = FALSE
    /\ d_pc = "caller"
    /\ d_pulled = 0
    /\ d_last = None
    /\ d_results = << >>

DrainNext ==
    \/ DCallerPull
    \/ DGftCall
    \/ DGftEvent
    \/ DGftReturn
    \/ DGftRaise

DrainSpec == DrainInit /\ [][DrainNext]_vars

\* --------------------------------------------------------------- tool cache
\* Python values as far as json tells them apart: a type tag and a sequence of
\* numbers.  A string is the sequence of its characters, a dict the sequence
\* k1, v1, k2, v2, ... of its items in insertion order; a str key made of
\* decimal digits is written as the number it spells.
PNone == [t |-> "none", v |-> << >>]
PInt(n) == [t |-> "int", v |-> << n >>]
PBool(b) == [t |-> "bool", v |-> << IF b THEN 1 ELSE 0 >>]
PStr(chars) == [t |-> "str", v |-> chars]
PList(items) == [t |-> "list", v |-> items]
PTuple(items) == [t |-> "tuple", v |-> items]
PIntDict(items) == [t |-> "intdict", v |-> items]
PStrDict(items) == [t |-> "strdict", v |-> items]

\* Python's truth value: `if result := ...`
PTruthy(x) ==
    CASE x.t = "none" -> FALSE
      [] x.t \in {"int", "bool"} -> x.v # << 0 >>
      [] OTHER -> x.v # << >>

\* The decimal digits of a number, and the order of str: "10" < "9"
RECURSIVE Digits(_)
Digits(n) == IF n < 10 THEN << n >> ELSE Append(Digits(n \div 10), n % 10)

RECURSIVE SeqLess(_, _)
SeqLess(a, b) ==
    IF b = << >> THEN FALSE
    ELSE IF a = << >> THEN TRUE
    ELSE IF Head(a) # Head(b) THEN Head(a) < Head(b)
    ELSE SeqLess(Tail(a), Tail(b))

KeyLess(a, b, as_str) == IF as_str THEN SeqLess(Digits(a), Digits(b)) ELSE a < b

\* sorted(dct.items()) of json's sort_keys, on the flat item sequence: the
\* items in the order of their keys, keys compared as str or as int
RECURSIVE SortItems(_, _)
SortItems(items, as_str) ==
    IF Len(items) <= 2 THEN items
    ELSE LET K == {i \in 1 .. Len(items) \div 2 : TRUE}
             m == CHOOSE i \in K : \A j \in K \ {i} :
                      KeyLess(items[2 * i - 1], items[2 * j - 1], as_str)
             rest == SubSeq(items, 1, 2 * m - 2) \o SubSeq(items, 2 * m + 1, Len(items))
         IN  << items[2 * m - 1], items[2 * m] >> \o SortItems(rest, as_str)

\* json.dumps(x, sort_keys=...) as the JSON value it writes: a tuple is written
\* as an array, a dict as an object whose keys are str; sort_keys orders the
\* items by the keys as they are in the dict, before they are made str.
ToJson(x, sort_keys) ==
    CASE x.t = "none" -> [t |-> "null", v |-> << >>]
      [] x.t = "int" -> [t |-> "number", v |-> x.v]
      [] x.t = "bool" -> [t |-> "bool", v |-> x.v]
      [] x.t = "str" -> [t |-> "string", v |-> x.v]
      [] x.t \in {"list", "tuple"} -> [t |-> "array", v |-> x.v]
      [] x.t = "intdict" ->
            [t |-> "object", v |-> IF sort_keys THEN SortItems(x.v, FALSE) ELSE x.v]
      [] x.t = "strdict" ->
            [t |-> "object", v |-> IF sort_keys THEN SortItems(x.v, TRUE) ELSE x.v]

\* json.loads: an array is read as a list, an object as a dict with str keys
FromJson(j) ==
    CASE j.t = "null" -> PNone
      [] j.t = "number" -> [t |-> "int", v |-> j.v]
      [] j.t = "bool" -> [t |-> "bool", v |-> j.v]
      [] j.t = "string" -> [t |-> "str", v |-> j.v]
      [] j.t = "array" -> [t |-> "list", v |-> j.v]
      [] j.t = "object" -> [t |-> "strdict", v |-> j.v]

\* A call of a tool: the function name, args (one positional argument) and
\* kwargs (names a, b, ... written 1, 2, ...; items in the order given)
ToolCall(fn, arg, kwargs) == [fn |-> fn, arg |-> arg, kwargs |-> kwargs]

\* key = json.dumps((args, kwargs), sort_keys=True)
CacheKey(arg, kwargs) == [a |-> ToJson(arg, TRUE), k |-> SortItems(kwargs, FALSE)]

\* json.dumps({"fn_name": ..., "args": ..., "kwargs": ..., "result": ...}): one
\* line of a cache file.  `call` and `wrote` do not stand in the file: they
\* recall the Python values the record was written from.
CacheRecord(call, res) ==
    [fn_name |-> call.fn,
     args |-> ToJson(call.arg, FALSE),
     kwargs |-> call.kwargs,
     result |-> ToJson(res, FALSE),
     call |-> call,
     wrote |-> res]

\* load_cache on one record:
\*   key = json.dumps((data["args"], data["kwargs"]), sort_keys=True)
LoadedKey(rec) == CacheKey(FromJson(rec.args), rec.kwargs)
LoadedResult(rec) == FromJson(rec.result)

\* A dict as a set of << key, value >> with one value per key
DictGet(d, key) ==
    IF \E e \in d : e[1] = key THEN (CHOOSE e \in d : e[1] = key)[2] ELSE PNone
DictPut(d, key, value) == {e \in d : e[1] # key} \cup {<< key, value >>}

\* tool_cache = _cache.get(fn_name, {}): the dict object of the function, or a
\* new empty dict object
SubDict(cache, heap, fn) == IF cache[fn] = 0 THEN Len(heap) + 1 ELSE cache[fn]
WithSubDict(cache, heap, fn) == IF cache[fn] = 0 THEN Append(heap, {}) ELSE heap

\* load_cache's loop body run over the records in the order read:
\*   tool_cache = _cache.get(fn, {}); tool_cache[key] = result; _cache[fn] = tool_cache
RECURSIVE LoadRecords(_, _, _)
LoadRecords(recs, cache, heap) ==
    IF recs = << >> THEN [cache |-> cache, heap |-> heap]
    ELSE LET rec == Head(recs)
             id == SubDict(cache, heap, rec.fn_name)
             h == WithSubDict(cache, heap, rec.fn_name)
         IN  LoadRecords(Tail(recs),
                         [cache EXCEPT ![rec.fn_name] = id],
                         [h EXCEPT ![id] = DictPut(h[id], LoadedKey(rec), LoadedResult(rec))])

\* The names of the cache files: tool_cache.{fn_name}.{pid}.{tid}.jsonl
FileName(fn, pid, tid) == << fn, pid, tid >>

\* os.listdir gives the files in any order
RECURSIVE Orders(_)
Orders(S) ==
    IF S = {} THEN {<< >>}
    ELSE UNION {{<< x >> \o o : o \in Orders(S \ {x})} : x \in S}

RECURSIVE ReadFiles(_)
ReadFiles(order) ==
    IF order = << >> THEN << >> ELSE c_files[Head(order)] \o ReadFiles(Tail(order))

\* The record sequences load_cache may read: the forced directory's file, or
\* the files of common_cache_dir() in some order
LoadReads ==
    IF c_forced THEN {c_fdir}
    ELSE {ReadFiles(o) : o \in Orders({n \in DOMAIN c_files : c_files[n] # << >>})}

\* if not _cache
CacheEmpty == \A fn \in FnNames : c_cache[fn] = 0

\* _cache.get(fn_name, {}).get(key)
Lookup(cache, heap, call) ==
    IF cache[call.fn] = 0 THEN PNone
    ELSE DictGet(heap[cache[call.fn]], CacheKey(call.arg, call.kwargs))

\* How a call ended, and in which process it was made
CallReturned(call, value) == [call |-> call, returned |-> value, raised |-> "", pid |-> c_pid]
CallRaised(call, name) == [call |-> call, returned |-> PNone, raised |-> name, pid |-> c_pid]

\* The calls made to wrapped tools and the results a tool may give
ToolCalls ==
    { ToolCall("f", PInt(1), << 1, 1, 2, 2 >>),
      ToolCall("f", PInt(1), << 2, 2, 1, 1 >>),
      ToolCall("g", PInt(1), << 1, 1, 2, 2 >>),
      ToolCall("f", PIntDict(<< 9, 1, 10, 1 >>), << >>) }

ToolResults ==
    { PNone, PInt(0), PBool(FALSE), PStr(<< >>), PList(<< >>), PInt(1), PTuple(<< 1 >>) }

\* A thread calls a wrapped tool: wrapper(*args, **kwargs).
CCall(th) ==
    /\ t_pc[th] = "idle"
    /\ Len(c_calls) < MaxToolCalls
    /\ \E call \in ToolCalls : t_call' = [t_call EXCEPT ![th] = call]
    /\ t_pc' = [t_pc EXCEPT ![th] = "get"]
    /\ UNCHANGED << mlvars, rvars, bvars, svars, dvars, wvars, c_forced, c_fdir, c_pid, c_cache,
                    c_heap, c_files, t_result, t_dict, c_calls, c_invoked, c_loaded >>

\* result := get_from_cache(fn_name, args, kwargs): load_cache() first when
\* _cache is empty, then the lookup.
CGet(th) ==
    /\ t_pc[th] = "get"
    /\ \E recs \in (IF CacheEmpty THEN LoadReads ELSE {<< >>}) :
          LET loaded == LoadRecords(recs, c_cache, c_heap)
          IN  /\ c_cache' = loaded.cache
              /\ c_heap' = loaded.heap
              /\ c_loaded' = IF CacheEmpty THEN recs ELSE c_loaded
              /\ t_result' = [t_result EXCEPT
                                ![th] = Lookup(loaded.cache, loaded.heap, t_call[th])]
    /\ t_pc' = [t_pc EXCEPT ![th] = "got"]
    /\ UNCHANGED << mlvars, rvars, bvars, svars, dvars, wvars, c_forced, c_fdir, c_pid, c_files,
                    t_call, t_dict, c_calls, c_invoked >>

\* if result := ...: return result
CacheHit(th) == PTruthy(t_result[th])

CHit(th) ==
    /\ t_pc[th] = "got"
    /\ CacheHit(th)
    /\ c_calls' = Append(c_calls, CallReturned(t_call[th], t_result[th]))
    /\ t_pc' = [t_pc EXCEPT ![th] = "idle"]
    /\ UNCHANGED << mlvars, rvars, bvars, svars, dvars, wvars, c_forced, c_fdir, c_pid, c_cache,
                    c_heap, c_files, t_call, t_result, t_dict, c_invoked, c_loaded >>

\* Mutant: the forced cache directory does not stop the tool from being invoked
CForcedMiss_Invokes(th) ==
    /\ t_pc[th] = "got"
    /\ ~CacheHit(th)
    /\ c_forced
    /\ \E r \in ToolResults : t_result' = [t_result EXCEPT ![th] = r]
    /\ c_invoked' = Append(c_invoked, t_call[th])
    /\ t_pc' = [t_pc EXCEPT ![th] = "add"]
    /\ UNCHANGED << mlvars, rvars, bvars, svars, dvars, wvars, c_forced, c_fdir, c_pid, c_cache,
                    c_heap, c_files, t_call, t_dict, c_calls, c_loaded >>

\* if _FORCE_CACHE_DIR is not None: raise ValueError
CForcedMiss(th) ==
    /\ t_pc[th] = "got"
    /\ ~CacheHit(th)
    /\ c_forced
    /\ c_calls' = Append(c_calls, CallRaised(t_call[th], "ValueError"))
    /\ t_pc' = [t_pc EXCEPT ![th] = "idle"]
    /\ UNCHANGED << mlvars, rvars, bvars, svars, dvars, wvars, c_forced, c_fdir, c_pid, c_cache,
                    c_heap, c_files, t_call, t_result, t_dict, c_invoked, c_loaded >>

\* result = tool_fn(*args, **kwargs)
CInvoke(th) ==
    /\ t_pc[th] = "got"
    /\ ~CacheHit(th)
    /\ ~c_forced
    /\ \E r \in ToolResults : t_result' = [t_result EXCEPT ![th] = r]
    /\ c_invoked' = Append(c_invoked, t_call[th])
    /\ t_pc' = [t_pc EXCEPT ![th] = "add"]
    /\ UNCHANGED << mlvars, rvars, bvars, svars, dvars, wvars, c_forced, c_fdir, c_pid, c_cache,
                    c_heap, c_files, t_call, t_dict, c_calls, c_loaded >>

\* add_to_cache: tool_cache = _cache.get(fn_name, {})
AddGet(th) ==
    /\ t_pc[th] = "add"
    /\ t_dict' = [t_dict EXCEPT ![th] = SubDict(c_cache, c_heap, t_call[th].fn)]
    /\ c_heap' = WithSubDict(c_cache, c_heap, t_call[th].fn)
    /\ t_pc' = [t_pc EXCEPT ![th] = "add_store"]
    /\ UNCHANGED << mlvars, rvars, bvars, svars, dvars, wvars, c_forced, c_fdir, c_pid, c_cache,
                    c_files, t_call, t_result, c_calls, c_invoked, c_loaded >>

\* add_to_cache: tool_cache[key] = result
AddStore(th) ==
    /\ t_pc[th] = "add_store"
    /\ c_heap' = [c_heap EXCEPT ![t_dict[th]] =
                     DictPut(@, CacheKey(t_call[th].arg, t_call[th].kwargs), t_result[th])]
    /\ t_pc' = [t_pc EXCEPT ![th] = "add_publish"]
    /\ UNCHANGED << mlvars, rvars, bvars, svars, dvars, wvars, c_forced, c_fdir, c_pid, c_cache,
                    c_files, t_call, t_result, t_dict, c_calls, c_invoked, c_loaded >>

\* add_to_cache: _cache[fn_name] = tool_cache
AddPublish(th) ==
    /\ t_pc[th] = "add_publish"
    /\ c_cache' = [c_cache EXCEPT ![t_call[th].fn] = t_dict[th]]
    /\ t_pc' = [t_pc EXCEPT ![th] = "add_write"]
    /\ UNCHANGED << mlvars, rvars, bvars, svars, dvars, wvars, c_forced, c_fdir, c_pid, c_heap,
                    c_files, t_call, t_result, t_dict, c_calls, c_invoked, c_loaded >>

\* Mutant: the file name is built without the thread id
AddWrite_NoThreadId(th) ==
    /\ t_pc[th] = "add_write"
    /\ c_files' = [c_files EXCEPT ![FileName(t_call[th].fn, c_pid, 1)] =
                      Append(@, CacheRecord(t_call[th], t_result[th]))]
    /\ t_pc' = [t_pc EXCEPT ![th] = "added"]
    /\ UNCHANGED << mlvars, rvars, bvars, svars, dvars, wvars, c_forced, c_fdir, c_pid, c_cache,
                    c_heap, t_call, t_result, t_dict, c_calls, c_invoked, c_loaded >>

\* add_to_cache: with open(fname, "a") as f: f.write(json.dumps({...}) + "\n")
AddWrite(th) ==
    /\ t_pc[th] = "add_write"
    /\ c_files' = [c_files EXCEPT ![FileName(t_call[th].fn, c_pid, th)] =
                      Append(@, CacheRecord(t_call[th], t_result[th]))]
    /\ t_pc' = [t_pc EXCEPT ![th] = "added"]
    /\ UNCHANGED << mlvars, rvars, bvars, svars, dvars, wvars, c_forced, c_fdir, c_pid, c_cache,
                    c_heap, t_call, t_result, t_dict, c_calls, c_invoked, c_loaded >>

\* wrapper: return result (after add_to_cache)
CReturn(th) ==
    /\ t_pc[th] = "added"
    /\ c_calls' = Append(c_calls, CallReturned(t_call[th], t_result[th]))
    /\ t_pc' = [t_pc EXCEPT ![th] = "idle"]
    /\ UNCHANGED << mlvars, rvars, bvars, svars, dvars, wvars, c_forced, c_fdir, c_pid, c_cache,
                    c_heap, c_files, t_call, t_result, t_dict, c_invoked, c_loaded >>

\* The process ends and a new one starts: a new pid, _cache = {} again; the
\* files stay.
NewProcess ==
    /\ \A th \in Threads : t_pc[th] = "idle"
    /\ c_pid < MaxProcesses
    /\ c_calls # << >>
    /\ c_pid' = c_pid + 1
    /\ c_cache' = [fn \in FnNames |-> 0]
    /\ c_heap' = << >>
    /\ UNCHANGED << mlvars, rvars, bvars, svars, dvars, wvars, c_forced, c_fdir, c_files, t_pc,
                    t_call, t_result, t_dict, c_calls, c_invoked, c_loaded >>

\* The files a process with one of the pids may write
FileNames == FnNames \X (1 .. MaxProcesses) \X Threads

\* What the cache file of the forced directory may hold
ForcedFiles == {<< >>} \cup {<< CacheRecord(c, r) >> : c \in ToolCalls, r \in ToolResults}

\* The locals of the threads before a call
ThreadsInit ==
    /\ t_pc = [th \in Threads |-> "idle"]
    /\ t_call = [th \in Threads |-> ToolCall("f", PNone, << >>)]
    /\ t_result = [th \in Threads |-> PNone]
    /\ t_dict = [th \in Threads |-> 0]

\* A process with an empty cache directory, or with a forced cache directory,
\* whose main thread calls wrapped tools one after the other.
CacheInit ==
    /\ MainLoopIdle
    /\ ReplayIdle
    /\ BatchIdle
    /\ StreamsIdle
    /\ DrainIdle
    /\ BrowserIdle
    /\ c_forced \in BOOLEAN
    /\ c_fdir \in (IF c_forced THEN ForcedFiles ELSE {<< >>})
    /\ c_pid = 1
    /\ c_cache = [fn \in FnNames |-> 0]
    /\ c_heap = << >>
    /\ c_files = [n \in FileNames |-> << >>]
    /\ ThreadsInit
    /\ c_calls = << >>
    /\ c_invoked = << >>
    /\ c_loaded = << >>

CacheNext ==
    \/ CCall(1)
    \/ CGet(1)
    \/ CHit(1)
    \/ CForcedMiss(1)
    \/ CInvoke(1)
    \/ AddGet(1)
    \/ AddStore(1)
    \/ AddPublish(1)
    \/ AddWrite(1)
    \/ CReturn(1)
    \/ NewProcess

CacheSpec == CacheInit /\ [][CacheNext]_vars

\* The results passed to add_to_cache by concurrent threads
AddedResults == {PInt(0), PInt(1)}

\* A thread calls add_to_cache(fn_name, args, kwargs, result), as wrapper does
\* with the result the tool gave it.
AddCall(th) ==
    /\ t_pc[th] = "idle"
    /\ Len(c_invoked) < MaxToolCalls
    /\ \E call \in ToolCalls, r \in AddedResults :
          /\ t_call' = [t_call EXCEPT ![th] = call]
          /\ t_result' = [t_result EXCEPT ![th] = r]
          /\ c_invoked' = Append(c_invoked, call)
    /\ t_pc' = [t_pc EXCEPT ![th] = "add"]
    /\ UNCHANGED << mlvars, rvars, bvars, svars, dvars, wvars, c_forced, c_fdir, c_pid, c_cache,
                    c_heap, c_files, t_dict, c_calls, c_loaded >>

\* The threads of a process run add_to_cache concurrently: any thread may be
\* switched to between two statements.
CacheThreadsInit ==
    /\ MainLoopIdle
    /\ ReplayIdle
    /\ BatchIdle
    /\ StreamsIdle
    /\ DrainIdle
    /\ BrowserIdle
    /\ c_forced = FALSE
    /\ c_fdir = << >>
    /\ c_pid = 1
    /\ c_cache = [fn \in FnNames |-> 0]
    /\ c_heap = << >>
    /\ c_files = [n \in FileNames |-> << >>]
    /\ ThreadsInit
    /\ c_calls = << >>
    /\ c_invoked = << >>
    /\ c_loaded = << >>

CacheThreadsNext ==
    \/ \E th \in Threads :
          \/ AddCall(th)
          \/ AddGet(th)
          \/ AddStore(th)
          \/ AddPublish(th)
          \/ AddWrite(th)
          \/ CReturn(th)
    \/ NewProcess

CacheThreadsSpec == CacheThreadsInit /\ [][CacheThreadsNext]_vars

\* The results of the tools whose records an earlier process left in its shards
WrittenResults == {PInt(0), PInt(1), PTuple(<< 1 >>)}

\* What one writer (a thread of the earlier process) passed to add_to_cache,
\* call after call
WriterHistories == SeqsUpTo(ToolCalls \X WrittenResults, MaxShardLen)

\* The records add_to_cache wrote for the calls of a history to the shard of
\* function fn: one json line per call, appended in the order of the calls
RECURSIVE ShardRecords(_, _)
ShardRecords(history, fn) ==
    IF history = << >> THEN << >>
    ELSE LET w == Head(history)
             rest == ShardRecords(Tail(history), fn)
         IN  IF w[1].fn = fn THEN << CacheRecord(w[1], w[2]) >> \o rest ELSE rest

\* A fresh process (pid 2, _cache = {}) started on the cache directory that the
\* threads of process 1 wrote.
CacheLoadInit ==
    /\ MainLoopIdle
    /\ ReplayIdle
    /\ BatchIdle
    /\ StreamsIdle
    /\ DrainIdle
    /\ BrowserIdle
    /\ c_forced = FALSE
    /\ c_fdir = << >>
    /\ c_pid = 2
    /\ c_cache = [fn \in FnNames |-> 0]
    /\ c_heap = << >>
    /\ \E h \in [Threads -> WriterHistories] :
          c_files = [n \in FileNames |->
                       IF n[2] = 1 THEN ShardRecords(h[n[3]], n[1]) ELSE << >>]
    /\ ThreadsInit
    /\ c_calls = << >>
    /\ c_invoked = << >>
    /\ c_loaded = << >>

\* The first get_from_cache of the fresh process
CacheLoadNext ==
    \/ CCall(1)
    \/ CGet(1)

CacheLoadSpec == CacheLoadInit /\ [][CacheLoadNext]_vars

\* ------------------------------------------------------------- tape browser
\* tape.metadata.id and tape.metadata.parent_id of a tape in a file; 0 is an
\* empty id (falsy)
TapeMeta(id, parent) == [id |-> id, parent |-> parent]
TapeIds == {1, 2}
TapesInFiles == {TapeMeta(1, 0), TapeMeta(2, 1), TapeMeta(0, 0)}

\* What load_tapes reads from one file: its tapes, in order
TapeFiles == SeqsUpTo(TapesInFiles, MaxFileTapes)

\* The folders: some files with the extension, named 1 .. MaxFiles
TapeFolders == UNION {[N -> TapeFiles] : N \in SUBSET (1 .. MaxFiles)}

\* sorted([f for f in os.listdir(...) if ...]): the names in ascending order
RECURSIVE SortedNames(_)
SortedNames(S) ==
    IF S = {} THEN << >>
    ELSE LET least == CHOOSE x \in S : \A y \in S : x <= y
         IN  << least >> \o SortedNames(S \ {least})

InList(x, list) == \E k \in DOMAIN list : list[k] = x

\* The body of `for j, tape in enumerate(tapes)` from the j-th tape (j counts
\* from 1, enumerate from 0) of the file at position i of the listing; st holds
\* tape_index, tape_children, nonempty_files and the exception raised
RECURSIVE IndexTapes(_, _, _, _)
IndexTapes(tapes, i, j, st) ==
    IF j > Len(tapes) THEN st
    ELSE LET tape_id == tapes[j].id
             parent_id == tapes[j].parent
             at == Some(<< i, j - 1 >>)
         IN  IF tape_id = 0 THEN IndexTapes(tapes, i, j + 1, st)
             ELSE IF IsSet(st.index[tape_id]) /\ st.index[tape_id] # at
                  THEN [st EXCEPT !.raised = "ValueError"]
             ELSE LET kids == IF IsSet(st.children[parent_id])
                              THEN Get(st.children[parent_id]) ELSE << >>
                  IN  IndexTapes(tapes, i, j + 1,
                        [st EXCEPT
                           !.index[tape_id] = at,
                           !.children = IF parent_id = 0 THEN @
                                        ELSE [@ EXCEPT ![parent_id] =
                                                Some(Append(kids, tape_id))]])

\* The body of `for i, file in enumerate(files)` from position p (p counts from
\* 1, enumerate from 0): files already in self.files and files without tapes
\* are skipped, the others are indexed and appended to nonempty_files
RECURSIVE IndexFiles(_, _, _, _)
IndexFiles(files, p, known, st) ==
    IF p > Len(files) THEN st
    ELSE LET file == files[p]
             tapes == tb_folder[file]
         IN  IF InList(file, known) THEN IndexFiles(files, p + 1, known, st)
             ELSE IF Len(tapes) = 0 THEN IndexFiles(files, p + 1, known, st)
             ELSE LET indexed == IndexTapes(tapes, p - 1, 1, st)
                  IN  IF indexed.raised # "" THEN indexed
                      ELSE IndexFiles(files, p + 1, known,
                             [indexed EXCEPT !.nonempty = Append(@, file)])

\* get_tape_files(): what it returns (nonempty), what it raised, and
\* tape_index and tape_children as it leaves them
GetTapeFiles ==
    LET files == SortedNames(DOMAIN tb_folder)
        st == [index |-> tb_index, children |-> tb_children, nonempty |-> << >>,
               raised |-> ""]
    IN  IF files = << >> THEN [st EXCEPT !.raised = "AssertionError"]
        ELSE IndexFiles(files, 1, tb_files, st)

\* self.files[i]: the name, or None for an IndexError
FileAt(files, i) == IF i + 1 <= Len(files) THEN Some(files[i + 1]) ELSE None

\* A label without links, and how a handler ends
NoLabel == [parent |-> None, kids |-> << >>]
HandlerOut(handler, raised, file, label) ==
    [handler |-> handler, raised |-> raised, file |-> file, label |-> label]

\* get_tape_label(tape): the link to the parent tape and the links to the
\* children, each the pair (self.files[fid], tid); raised is IndexError when a
\* self.files[...] is out of range
TapeLabel(shown, files, index, children) ==
    LET linked == shown.parent # 0 /\ IsSet(index[shown.parent])
        kids == IF shown.id # 0 /\ IsSet(children[shown.id])
                THEN Get(children[shown.id]) ELSE << >>
        Place(id) == Get(index[id])
        ok_parent == linked => IsSet(FileAt(files, Place(shown.parent)[1]))
        ok_kids == \A k \in DOMAIN kids : IsSet(FileAt(files, Place(kids[k])[1]))
    IN  IF ~(ok_parent /\ ok_kids) THEN [raised |-> "IndexError", label |-> NoLabel]
        ELSE [raised |-> "",
              label |->
                [parent |-> IF linked
                            THEN Some(<< Get(FileAt(files, Place(shown.parent)[1])),
                                         Place(shown.parent)[2] >>)
                            ELSE None,
                 kids |-> [k \in DOMAIN kids |->
                             << Get(FileAt(files, Place(kids[k])[1])), Place(kids[k])[2] >>]]]

\* update_tape_view(tape_id) as far as the label goes: no tape with that
\* number gives the failure page, without an exception
TapeView(k, tapes, files, index, children) ==
    IF k >= Len(tapes) THEN [raised |-> "", label |-> NoLabel]
    ELSE TapeLabel(tapes[k + 1], files, index, children)

\* The page is loaded with ?tape_id=query (0: no tape_id): get_request_params,
\* through update_view and update_tape_view to get_tape_label.
GetRequestParams ==
    /\ tb_loads < MaxLoads
    /\ tb_loads' = tb_loads + 1
    /\ \E query \in {0} \cup TapeIds :
          LET got == GetTapeFiles
              files == got.nonempty
              asked == query # 0 /\ IsSet(got.index[query])
              place == Get(got.index[query])
              chosen == IF asked THEN FileAt(files, place[1]) ELSE FileAt(files, 0)
              selected == IF asked THEN place[2] ELSE tb_selected
          IN  /\ tb_index' = got.index
              /\ tb_children' = got.children
              /\ IF got.raised # ""
                 THEN /\ tb_out' = HandlerOut("get_request_params", got.raised, 0, NoLabel)
                      /\ UNCHANGED << tb_files, tb_selected, tb_tapes >>
                 ELSE /\ tb_files' = files
                      /\ IF files = << >> \/ ~IsSet(chosen)
                         THEN /\ tb_out' = HandlerOut("get_request_params", "IndexError", 0, NoLabel)
                              /\ UNCHANGED << tb_selected, tb_tapes >>
                         ELSE LET view == TapeView(selected, tb_folder[Get(chosen)], files,
                                                   got.index, got.children)
                              IN  /\ tb_selected' = selected
                                  /\ tb_tapes' = tb_folder[Get(chosen)]
                                  /\ tb_out' = HandlerOut("get_request_params", view.raised,
                                                         Get(chosen), view.label)
    /\ UNCHANGED << mlvars, rvars, bvars, svars, dvars, cvars, tb_folder >>

\* The tape selector is used: update_tape_view(tape_id).
UpdateTapeView ==
    /\ tb_loads > 0
    /\ \E k \in 0 .. MaxFileTapes - 1 :
          LET view == TapeView(k, tb_tapes, tb_files, tb_index, tb_children)
          IN  tb_out' = HandlerOut("update_tape_view", view.raised, tb_out.file, view.label)
    /\ UNCHANGED << mlvars, rvars, bvars, svars, dvars, cvars, tb_folder, tb_files, tb_index,
                    tb_children, tb_selected, tb_tapes, tb_loads >>

\* A new TapeBrowser (__init__) on some folder
BrowserInit ==
    /\ MainLoopIdle
    /\ ReplayIdle
    /\ BatchIdle
    /\ StreamsIdle
    /\ DrainIdle
    /\ CacheIdle
    /\ tb_folder \in TapeFolders
    /\ tb_files = << >>
    /\ tb_index = [id \in TapeIds |-> None]
    /\ tb_children = [id \in TapeIds |-> None]
    /\ tb_selected = 0
    /\ tb_tapes = << >>
    /\ tb_loads = 0
    /\ tb_out = HandlerOut("", "", 0, NoLabel)

BrowserNext ==
    \/ GetRequestParams
    \/ UpdateTapeView

BrowserSpec == BrowserInit /\ [][BrowserNext]_vars


\* ------------------------------------------------- vocabulary of the claims
StatusEvent(s) == [MainLoopEvent EXCEPT !.status = s]

\* Positions in the stream of the terminal status events
TerminalIdx == {i \in DOMAIN events : events[i].status \in TerminalStatuses}

\* The stream ended because the while test failed, not by a status
BudgetExhausted == max_loops # -1 /\ n_loops >= max_loops

\* The stream ended normally: StopIteration reached the caller
StreamEnded == pc = "done"

\* The outcome of the latest environment.react call
LastReact == react_outputs[Len(react_outputs)]
LastReactRaised(name) == Len(react_outputs) > 0 /\ LastReact.raised = name

\* The events of the current round
RoundIdx == this_round .. Len(events)

\* C1, as claimed: every stream that ends has emitted exactly one terminal
\* status event, and that event is the last one of the stream.
C1_Original ==
    StreamEnded =>
        /\ Cardinality(TerminalIdx) = 1
        /\ events[Len(events)].status \in TerminalStatuses

\* C1, amended: a stream emits at most one terminal status event and nothing
\* follows it; a stream that ends has emitted exactly one, unless it ended
\* because the round budget was exhausted, and then it has emitted none.
C1_TerminalStatus ==
    /\ Cardinality(TerminalIdx) <= 1
    /\ \A i \in TerminalIdx : i = Len(events) /\ pc \in {"return", "done"}
    /\ StreamEnded => (Cardinality(TerminalIdx) = 1 <=> ~BudgetExhausted)

C1_Witness ==
    /\ StreamEnded
    /\ n_loops = 1
    /\ Cardinality(TerminalIdx) = 1
    /\ Len(events) > 4

\* C2: when the Agent's completed tape ends with a FinalStep, react is not
\* called with it; the next event is FINISHED and it is the last of the stream.
C2_NoReactAfterFinalStep ==
    /\ \A i \in DOMAIN react_inputs : ~LastIsFinal(react_inputs[i])
    /\ \A i \in DOMAIN events :
          (IsSet(events[i].agent_tape) /\ LastIsFinal(Get(events[i].agent_tape))) =>
              \/ i = Len(events) /\ pc = "after_agent_tape"
              \/ /\ i + 1 = Len(events)
                 /\ events[i + 1] = StatusEvent(StatusFinished)
                 /\ pc \in {"return", "done"}

C2_Witness ==
    /\ StreamEnded
    /\ LastIsFinal(agent_tape)
    /\ Len(agent_inputs) = 2
    /\ Len(react_inputs) = 1
    /\ events[Len(events)].status = StatusFinished

\* C3: with a finite budget max_loops = R >= 0, agent.run is called at most
\* R times and environment.react at most R times.
C3_RoundBudget ==
    max_loops >= 0 =>
        /\ Len(agent_inputs) <= max_loops
        /\ Len(react_inputs) <= max_loops

C3_Witness ==
    /\ max_loops = 2
    /\ StreamEnded
    /\ Len(agent_inputs) = 2
    /\ Len(react_inputs) = 2

\* C4, as claimed: when the tape returned by environment.react ends with a
\* FinalStep, the Agent is not invoked again on it (react call i belongs to
\* round i, the next agent.run is call i + 1).
C4_StopsOnEnvFinalStep ==
    \A i \in DOMAIN react_outputs :
        (IsSet(react_outputs[i].tape) /\ LastIsFinal(Get(react_outputs[i].tape)))
            => Len(agent_inputs) <= i

\* The scenario of C5: the stream has ended after a single Agent turn in which
\* the Agent yielded one step and then its completion event, and the completed
\* tape ends with a FinalStep.
C5_Scenario ==
    /\ StreamEnded
    /\ Len(agent_inputs) = 1
    /\ Len(produced) = 1
    /\ completed
    /\ LastIsFinal(agent_tape)

\* C5, as claimed: in that scenario the stream is exactly three events: the
\* step's event, the agent_tape event, the FINISHED status event.
C5_Original ==
    C5_Scenario =>
        /\ Len(events) = 3
        /\ IsSet(events[1].agent_event) /\ IsSet(Get(events[1].agent_event).step)
        /\ IsSet(events[2].agent_tape)
        /\ events[3].status = StatusFinished

\* C5, amended: in that scenario the stream is exactly four events: the step's
\* event, the relayed completion event (an agent_event carrying final_tape),
\* the agent_tape event, the FINISHED status event.
C5_FinishedScenario ==
    C5_Scenario =>
        LET step == produced[1]
            final == start_tape \o << step >>
        IN  events =
              << [MainLoopEvent EXCEPT !.agent_event = Some(AgentEvent(Some(step), None))],
                 [MainLoopEvent EXCEPT !.agent_event = Some(AgentEvent(None, Some(final)))],
                 [MainLoopEvent EXCEPT !.agent_tape = Some(final)],
                 StatusEvent(StatusFinished) >>

C5_Witness ==
    /\ C5_Scenario
    /\ start_tape = << Observation >>
    /\ Len(events) = 4

\* No exception has reached the caller of the stream
NoException == pc # "failed" /\ result.raised \in {"pending", ""}

\* The shape of a round that ended with status `s`: the relayed agent events,
\* then the agent_tape event carrying the tape react was called with, then the
\* status event as the last event; no observation and no env_tape event.
RoundEndsWithStatus(s) ==
    LET n == Len(events)
    IN  /\ pc \in {"return", "done"}
        /\ n >= this_round + 1
        /\ events[n] = StatusEvent(s)
        /\ events[n - 1] =
              [MainLoopEvent EXCEPT !.agent_tape = Some(react_inputs[Len(react_inputs)])]
        /\ \A i \in this_round .. n - 2 :
              /\ IsSet(events[i].agent_event)
              /\ events[i].agent_tape = None
              /\ events[i].status = StatusOK
        /\ \A i \in RoundIdx : events[i].observation = None /\ events[i].env_tape = None

\* C6: when environment.react raises NoActionsToReactTo, the round's events
\* are the Agent's events, the agent_tape event, then NO_ACTIONS, and the
\* stream ends: no observation, no env_tape, no exception at the caller.
C6_NoActions ==
    LastReactRaised("NoActionsToReactTo") =>
        /\ RoundEndsWithStatus(StatusNoActions)
        /\ NoException
        /\ ~LastIsFinal(react_inputs[Len(react_inputs)])

C6_Witness ==
    /\ LastReactRaised("NoActionsToReactTo")
    /\ StreamEnded
    /\ Len(produced) >= 1
    /\ result.raised = ""

\* C7: when environment.react raises ExternalObservationNeeded, main_loop
\* emits EXTERNAL_INPUT_NEEDED as the last event and ends the stream: no
\* env_tape for that round, no exception at the caller.
C7_ExternalInputNeeded ==
    LastReactRaised("ExternalObservationNeeded") =>
        /\ RoundEndsWithStatus(StatusExternalInputNeeded)
        /\ NoException

C7_Witness ==
    /\ LastReactRaised("ExternalObservationNeeded")
    /\ StreamEnded
    /\ Len(react_inputs) = 2
    /\ result.raised = ""

\* Positions in the stream of the events that carry a tape
TapeIdx == {i \in DOMAIN events : IsSet(events[i].agent_tape) \/ IsSet(events[i].env_tape)}

Max(S) == CHOOSE x \in S : \A y \in S : y <= x

\* The tape carried by a tape event
TapeOf(ev) == IF IsSet(ev.env_tape) THEN ev.env_tape ELSE ev.agent_tape

\* C8, as claimed: on a stream that ended, get_final_tape returns the tape of
\* the last agent_tape or env_tape event, and raises ValueError when the
\* stream emitted no such event.
C8_FinalTape ==
    StreamEnded =>
        IF TapeIdx = {}
        THEN result = [returned |-> None, raised |-> "ValueError"]
        ELSE result = [returned |-> TapeOf(events[Max(TapeIdx)]), raised |-> ""]

\* C9, as claimed: the tape passed to the Agent in round k + 1 extends the tape
\* passed to it in round k.
C9_AppendOnly ==
    \A k \in 1 .. Len(agent_inputs) - 1 : IsPrefix(agent_inputs[k], agent_inputs[k + 1])

\* The env_tape events of the stream; the i-th belongs to the i-th react call
EnvTapeEvents == SelectSeq(events, LAMBDA ev : IsSet(ev.env_tape))

\* The i-th react call returned a tape shorter than the one it was given
Shrunk(i) ==
    /\ IsSet(react_outputs[i].tape)
    /\ Len(Get(react_outputs[i].tape)) < Len(react_inputs[i])

\* C10, as claimed: a tape shorter than its input returned by react is never
\* emitted as env_tape and never passed to the Agent as the next working tape.
C10_ShorterTapeRejected ==
    \A i \in DOMAIN react_outputs :
        Shrunk(i) => Len(EnvTapeEvents) < i /\ Len(agent_inputs) <= i

\* C11, as claimed: when the Agent signals completion twice in one invocation,
\* the loop invocation fails: a second completion event held by the Agent's
\* generator is never dropped unread while the loop goes on.
C11_DoubleCompletionFails ==
    [][(agent_pending /\ ~agent_pending' /\ BreakOnFinalTape) => pc' = "failed"]_vars

\* C17: main_loop is lazy and pull-driven: nothing has been invoked when the
\* stream is created, and while no pull is running the generator does not
\* move: no agent.run, no environment.react, no event, no progress.
C17_Lazy ==
    /\ (agent_inputs = << >> /\ react_inputs = << >> /\ events = << >>)
    /\ [][~demand => /\ agent_inputs' = agent_inputs
                     /\ react_inputs' = react_inputs
                     /\ events' = events
                     /\ pc' = pc
                     /\ produced' = produced]_vars

\* The caller holds the stream suspended right before an Environment call
C17_Witness ==
    /\ ~demand
    /\ pc = "after_agent_tape"
    /\ ~AgentFinished
    /\ Len(agent_inputs) = 2

\* How many of the four data fields of a MainLoopEvent are set
FieldsSet(ev) ==
    Cardinality({f \in {"agent_event", "agent_tape", "observation", "env_tape"} :
                    IsSet(ev[f])})

\* C19: every emitted MainLoopEvent is one variant of a tagged union: exactly
\* one data field set and status OK, or no data field and a terminal status.
C19_TaggedUnion ==
    \A i \in DOMAIN events :
        \/ FieldsSet(events[i]) = 1 /\ events[i].status = StatusOK
        \/ FieldsSet(events[i]) = 0 /\ events[i].status \in TerminalStatuses

C19_Witness ==
    /\ \E i \in DOMAIN events : IsSet(events[i].agent_event)
    /\ \E i \in DOMAIN events : IsSet(events[i].agent_tape)
    /\ \E i \in DOMAIN events : IsSet(events[i].observation)
    /\ \E i \in DOMAIN events : IsSet(events[i].env_tape)
    /\ \E i \in DOMAIN events : events[i].status \in TerminalStatuses

\* C12: the replay of a tape that main_loop produced, with the deterministic
\* Agent and Environment that produced it, ends by returning True, with
\* reuse_observations true and false.
C12_SelfReplayMatches ==
    (same_agent /\ r_pc \in {"returned", "raised"}) => r_result = Returned(TRUE)

\* replay_tape has been entered and did not reject its arguments
ReplayStarted == r_pc \notin {"idle", "called"} /\ r_result # Raised("ValueError")

\* The comparisons that found a difference
Mismatches == {k \in DOMAIN r_log : r_log[k].verdict # "ok"}

\* C13: with stop_on_mismatch true, the first comparison that finds a
\* difference in kind or content is the last comparison made, and replay_tape
\* has returned False when it is recorded: the Agent and the Environment are
\* not invoked after it.
C13_StopsAtFirstMismatch ==
    stop_on_mismatch =>
        \A k \in Mismatches :
            /\ k = Len(r_log)
            /\ r_pc = "returned"
            /\ r_result = Returned(FALSE)

C13_Witness ==
    /\ stop_on_mismatch
    /\ Len(r_log) >= 2
    /\ r_log[Len(r_log)].what = "step"
    /\ r_log[Len(r_log)].verdict = "content"
    /\ r_result = Returned(FALSE)
    /\ Len(r_agent_inputs) = 1
    /\ Len(r_log) < Len(r_tape)

\* C14: replay_tape reports every replay failure as its boolean result: once
\* its arguments are accepted it never ends by raising, in particular not
\* when the Agent or the Environment produces more steps than were recorded.
C14_FailureIsReturned == ReplayStarted => r_pc # "raised"

\* The index of the first step of a tape that is not an Observation (the
\* length of the tape when all its steps are Observations)
FirstNonObservation(t) ==
    CHOOSE n \in 0 .. Len(t) :
        /\ \A j \in 1 .. n : IsObservation(t[j])
        /\ n = Len(t) \/ ~IsObservation(t[n + 1])

\* C20: without start_tape the first Agent turn runs on the longest leading
\* run of Observation steps of the recorded tape and the first position
\* compared is the index of the first non-Observation step; with start_tape
\* the first Agent turn runs on it and the comparison position starts at
\* len(start_tape): the first comparison is made there, or after the recorded
\* Observations that lenient mode reused from there without comparing them.
C20_StartTape ==
    LET n == IF r_start = None THEN FirstNonObservation(r_tape) ELSE Len(Get(r_start))
        start == IF r_start = None THEN SubSeq(r_tape, 1, n) ELSE Get(r_start)
    IN  ReplayStarted =>
            /\ r_agent_inputs = << >> => r_new_tape = start /\ r_i = n
            /\ r_agent_inputs # << >> => r_agent_inputs[1] = start
            /\ r_log # << >> =>
                  \/ r_log[1].pos = n
                  \/ /\ r_start # None
                     /\ reuse_observations
                     /\ r_log[1].pos > n
                     /\ \A j \in n + 1 .. r_log[1].pos : IsObservation(r_tape[j])

C20_Witness ==
    /\ r_start = None
    /\ Len(r_tape) = MaxTapeLen
    /\ r_log # << >>
    /\ r_log[1].pos = 1
    /\ r_agent_inputs[1] = << Observation >>

\* replay_tapes is over
BatchEnded == b_pc \in {"returned", "raised"}

\* C15: replay_tapes never aborts the batch because of one tape: when it
\* ends, every tape of the list has been replayed and counted.
C15_BatchNeverAborts ==
    BatchEnded =>
        /\ Len(b_outcomes) = Len(b_tapes)
        /\ ok + fails = Len(b_tapes)
        /\ b_pc = "returned"

\* The tapes for which replay_tape reported a failure
FailedTapes == {k \in DOMAIN b_outcomes : b_outcomes[k] = Returned(FALSE)}

\* C16: when replay_tapes returns, its result is the number of tapes for
\* which replay_tape returned False and ok + fails is the number of tapes;
\* every call of replay_tape is made on the next tape of the list with fresh
\* comparison state, whatever the outcomes of the tapes before it.
C16_CountsFailures ==
    /\ b_pc = "returned" =>
          /\ b_result = Returned(Cardinality(FailedTapes))
          /\ fails = Cardinality(FailedTapes)
          /\ ok = Cardinality({k \in DOMAIN b_outcomes : b_outcomes[k] = Returned(TRUE)})
          /\ ok + fails = Len(b_tapes)
    /\ (b_pc = "replaying" /\ r_pc = "called") =>
          /\ r_tape = b_tapes[Len(b_outcomes) + 1]
          /\ ReplayLocalsInit

C16_Witness ==
    /\ b_pc = "returned"
    /\ Len(b_tapes) = 2
    /\ b_outcomes = << Returned(FALSE), Returned(TRUE) >>
    /\ b_result = Returned(1)

\* The events a stream yields when it is run alone on start tape t with
\* budget max, from its round n on
RECURSIVE AloneFrom(_, _, _)
AloneFrom(t, n, max) ==
    IF ~(n < max \/ max = -1) THEN << >>
    ELSE RoundEvents(t) \o (IF RoundIsTerminal(t) THEN << >>
                            ELSE AloneFrom(RoundTape(t), n + 1, max))

RunAlone(t, max) == AloneFrom(t, 0, max)

\* C18: under any interleaving of the two streams, each stream yields the
\* events it yields when it is run alone, in the same order, and has yielded
\* all of them when it ends.
C18_StreamsIndependent ==
    \A s \in Streams :
        /\ IsPrefix(s_events[s], RunAlone(s_start[s], s_max[s]))
        /\ s_pc[s] = "done" => s_events[s] = RunAlone(s_start[s], s_max[s])

C18_Witness ==
    /\ s_pc[1] = "round" /\ s_n[1] = 1 /\ s_k[1] = 2
    /\ s_pc[2] = "round" /\ s_n[2] = 1 /\ s_k[2] = 1
    /\ s_max[1] # s_max[2]

\* The run of consecutive Observation steps of the recorded tape that starts
\* at position p (0-based)
RecordedObservationRun(p) ==
    LET rest == IF p < Len(r_tape) THEN Len(r_tape) - p ELSE 0
        n == CHOOSE n \in 0 .. rest :
                /\ \A j \in 1 .. n : IsObservation(r_tape[p + j])
                /\ n = rest \/ ~IsObservation(r_tape[p + n + 1])
    IN  [j \in 1 .. n |-> r_tape[p + j]]

\* C21: in lenient mode the Environment is never invoked, and after each
\* non-final Agent turn the working tape is the Agent's tape followed by the
\* run of consecutive Observation steps recorded from position len(agent_tape)
\* on, in recorded order.
C21_LenientReusesObservations ==
    reuse_observations =>
        /\ r_env_inputs = << >>
        /\ (r_pc = "while" /\ r_agent_inputs # << >>) =>
              r_new_tape = r_agent_tape \o RecordedObservationRun(Len(r_agent_tape))

C21_Witness ==
    /\ reuse_observations
    /\ r_env
    /\ r_pc = "while"
    /\ Len(r_agent_inputs) = 1
    /\ Len(r_new_tape) = Len(r_agent_tape) + 1
    /\ Len(r_tape) > Len(r_new_tape)
    /\ ~IsObservation(r_tape[Len(r_new_tape) + 1])

\* C26: with stop_on_mismatch false a mismatch does not end the replay:
\* replay_tape returns only when the recorded tape is exhausted or the Agent
\* ended with a FinalStep; and once a mismatch is recorded match stays false
\* and the result is False.
C26_KeepsComparing ==
    ~stop_on_mismatch =>
        /\ Mismatches # {} => ~r_match
        /\ r_pc = "returned" =>
              /\ r_result = Returned(Mismatches = {})
              /\ r_i >= Len(r_tape) \/ LastIsFinal(r_agent_tape)

C26_Witness ==
    /\ ~stop_on_mismatch
    /\ Len(r_log) = 3
    /\ r_log[1].verdict # "ok"
    /\ r_log[2].verdict = "ok"
    /\ r_log[3].verdict = "ok"
    /\ Len(r_agent_inputs) = 2
    /\ r_result = Returned(FALSE)

\* The last event of the Agent is the completion of a turn whose tape ends
\* with a FinalStep
AgentEndedWithFinalStep ==
    /\ IsSet(r_event)
    /\ Truthy(Get(r_event).final_tape)
    /\ LastIsFinal(Get(Get(r_event).final_tape))

\* C27: when an Agent turn completes with a FinalStep as last step the replay
\* ends: nothing runs after the completion but the return, and the result is
\* True exactly when no mismatch was recorded.
C27_AgentFinalStepEndsReplay ==
    AgentEndedWithFinalStep =>
        /\ r_pc \in {"after_for", "returned"}
        /\ r_pc = "returned" => r_result = Returned(Mismatches = {})

C27_Witness ==
    /\ AgentEndedWithFinalStep
    /\ r_pc = "returned"
    /\ r_result = Returned(FALSE)
    /\ Len(r_log) >= 2
    /\ r_i < Len(r_tape)
    /\ ~reuse_observations

\* C28: in strict mode, once the Environment has emitted a FinalStep the
\* Agent is not invoked again: the Agent has been run as many times as the
\* Environment, not once more.
C28_EnvFinalStepEndsReplay ==
    (~reuse_observations /\ \E j \in DOMAIN r_obs : IsFinalStep(r_obs[j])) =>
        Len(r_agent_inputs) = Len(r_env_inputs)

\* C29: every iteration of the replay loop whose Agent turn completes and
\* that does not end the replay advances the comparison position: at the
\* next while test i is greater than it was when the Agent was invoked.
C29_PositionAdvances ==
    [][(r_pc = "after_for" /\ r_pc' = "while" /\ r_completed)
          => r_i' > r_i - Len(r_produced)]_vars

\* No Agent turn has started since the Environment's last reaction
AfterReaction == ~reuse_observations /\ Len(r_agent_inputs) = Len(r_env_inputs)

\* The number of observations of the last reaction that have been compared:
\* a comparison that stops the replay leaves the loop before it is counted
ComparedObservations ==
    IF /\ r_pc = "returned" /\ stop_on_mismatch /\ r_log # << >>
       /\ r_log[Len(r_log)].what = "observation"
       /\ r_log[Len(r_log)].verdict # "ok"
    THEN r_k + 1 ELSE r_k

\* The last comparison made is that of the last compared observation of the
\* last reaction with the recorded step at the observation's own index in
\* the regenerated tape.
LastObservationCompared ==
    LET j == ComparedObservations
        pos == Len(r_agent_tape) + j - 1
    IN  /\ r_log # << >>
        /\ pos < Len(r_tape)
        /\ r_log[Len(r_log)] =
              Compared(pos, "observation", ObservationVerdict(r_obs[j], r_tape[pos + 1]))

\* A difference found in an observation makes the replay fail, at once when
\* stop_on_mismatch is true
ObservationMismatchFails ==
    \A k \in Mismatches :
        r_log[k].what = "observation" =>
            /\ ~r_match
            /\ r_pc = "returned" => r_result = Returned(FALSE)
            /\ stop_on_mismatch => r_pc = "returned" /\ k = Len(r_log)

\* C30: in strict mode every observation the Environment regenerates is
\* compared, with the recorded step at the observation's own index, and a
\* difference makes the replay fail (at once when stop_on_mismatch is true).
C30_ObservationsCompared ==
    /\ (AfterReaction /\ r_pc \in {"observations", "while", "returned"}
            /\ ComparedObservations >= 1) => LastObservationCompared
    /\ (AfterReaction /\ r_pc = "while") => r_k = Len(r_obs)
    /\ ObservationMismatchFails

\* The events of the current round, in the order they were yielded
RoundEventsSoFar == SubSeq(events, this_round, Len(events))

\* The steps carried by the Agent events among a sequence of events, in order
RECURSIVE RelayedSteps(_)
RelayedSteps(evs) ==
    IF evs = << >> THEN << >>
    ELSE LET ev == Head(evs)
         IN  (IF IsSet(ev.agent_event) /\ IsSet(Get(ev.agent_event).step)
              THEN << Get(Get(ev.agent_event).step) >> ELSE << >>)
             \o RelayedSteps(Tail(evs))

\* C22: a round that ended with its env_tape event consists of the Agent's
\* events in the order the Agent produced them, then one agent_tape event,
\* then one observation event per step the Environment appended
\* (len(env_tape) - len(agent_tape) events, in append order), then the
\* env_tape event.
C22_RoundOrder ==
    pc = "after_env_tape" =>
        LET R == RoundEventsSoFar
            e == Len(R)
            A == {i \in DOMAIN R : IsSet(R[i].agent_tape)}
        IN  /\ Cardinality(A) = 1
            /\ LET a == CHOOSE i \in A : TRUE
                   at == Get(R[a].agent_tape)
                   et == Get(R[e].env_tape)
               IN  /\ \A i \in 1 .. a - 1 : R[i].agent_event # None
                   /\ RelayedSteps(R) = produced
                   /\ IsSet(R[e].env_tape)
                   /\ et = Get(react_outputs[Len(react_outputs)].tape)
                   /\ e - a - 1 = Len(et) - Len(at)
                   /\ \A j \in 1 .. e - a - 1 :
                         R[a + j] = [MainLoopEvent EXCEPT !.observation = Some(et[Len(at) + j])]

\* C24: a stream that ends because the round budget max_loops = R is
\* exhausted (R rounds done, no terminal condition) has emitted exactly R
\* env_tape events, the last of them is the last event of the stream, and no
\* event of the stream carries a status other than OK; a stream with
\* max_loops = -1 ends by a terminal status event only.
C24_BudgetExhaustion ==
    /\ (StreamEnded /\ BudgetExhausted) =>
          /\ n_loops = max_loops
          /\ Len(EnvTapeEvents) = max_loops
          /\ max_loops > 0 => IsSet(events[Len(events)].env_tape)
          /\ \A i \in DOMAIN events : events[i].status = StatusOK
    /\ (StreamEnded /\ max_loops = -1) =>
          /\ Len(events) > 0
          /\ events[Len(events)].status \in TerminalStatuses

C24_Witness ==
    /\ StreamEnded
    /\ BudgetExhausted
    /\ max_loops = 2
    /\ Len(EnvTapeEvents) = 2
    /\ events[Len(events)] = [MainLoopEvent EXCEPT !.env_tape = Some(tape)]
    /\ Len(events) >= 6

\* The latest environment.react call returned the tape it was given (the call
\* belongs to the running round until the next agent.run call)
SilentReaction ==
    /\ Len(react_outputs) > 0
    /\ LastReact = ReactReturned(agent_tape)
    /\ react_inputs[Len(react_inputs)] = agent_tape

\* C25: after environment.react has returned agent_tape unchanged, the next
\* event of the stream is the env_tape event (it directly follows the
\* agent_tape event, so the round has no observation event and no status
\* event), then the round is counted, and if the while test holds agent.run is
\* called again, on that same tape; the stream holds no terminal status event.
C25_SilentRound ==
    [][(SilentReaction /\ pc \in {"observations", "after_env_tape", "loop"} /\ pc' # pc) =>
          /\ TerminalIdx = {}
          /\ pc = "observations" =>
                /\ events[Len(events)] = [MainLoopEvent EXCEPT !.agent_tape = Some(agent_tape)]
                /\ events' = Append(events, [MainLoopEvent EXCEPT !.env_tape = Some(agent_tape)])
                /\ pc' = "after_env_tape"
          /\ pc = "after_env_tape" =>
                /\ n_loops' = n_loops + 1
                /\ events' = events
                /\ pc' = "loop"
          /\ pc = "loop" =>
                /\ events' = events
                /\ IF LoopCondition
                   THEN pc' = "agent_next" /\ agent_inputs' = Append(agent_inputs, agent_tape)
                   ELSE pc' = "done" /\ BudgetExhausted]_vars

C25_Witness ==
    /\ pc = "agent_next"
    /\ Len(agent_inputs) = 2
    /\ react_outputs = << ReactReturned(react_inputs[1]) >>
    /\ agent_inputs[2] = react_inputs[1]
    /\ n_loops = 1
    /\ Len(EnvTapeEvents) = 1
    /\ TerminalIdx = {}

\* The stream is exhausted: the generator returned or raised
Exhausted == pc \in {"done", "failed"}

\* The ways a stream leaves RUNNING
ByTerminalStatus ==
    /\ StreamEnded
    /\ Len(events) > 0
    /\ events[Len(events)].status \in TerminalStatuses
ByBudgetExhaustion == StreamEnded /\ BudgetExhausted /\ TerminalIdx = {}
ByAssertionError == pc = "failed" /\ result = [returned |-> None, raised |-> "AssertionError"]

\* C23, as claimed: called with a finite budget max_loops >= 0 (the initial
\* states of FairSpec), every stream is eventually exhausted, and a stream is
\* exhausted only by a terminal status or by budget exhaustion.
C23_Original ==
    /\ []((max_loops >= 0 /\ Exhausted) => (ByTerminalStatus \/ ByBudgetExhaustion))
    /\ <>Exhausted

\* C23, amended: called with a finite budget max_loops >= 0 (the initial
\* states of FairSpec), every stream is eventually exhausted; it is exhausted
\* by a terminal status, by budget exhaustion, or by the AssertionError raised
\* when the Agent's events ended without a completed tape.
C23_Terminates ==
    /\ []((max_loops >= 0 /\ Exhausted) =>
             (ByTerminalStatus \/ ByBudgetExhaustion \/ ByAssertionError))
    /\ <>Exhausted

C23_Witness ==
    /\ max_loops = 2
    /\ ByTerminalStatus
    /\ n_loops = 1
    /\ Len(agent_inputs) = 2
    /\ result.raised = ""

\* C31: replay_tape called without an Environment and with
\* reuse_observations false raises ValueError, and it does so before agent.run
\* is called and before any step is compared.
C31_EnvRequired ==
    (~r_env /\ ~reuse_observations) =>
        /\ r_pc \in {"called", "raised"}
        /\ r_pc = "raised" => r_result = Raised("ValueError")
        /\ r_agent_inputs = << >>
        /\ r_env_inputs = << >>
        /\ r_log = << >>
        /\ r_new_tape = << >>

C31_Witness ==
    /\ ~r_env
    /\ ~reuse_observations
    /\ r_pc = "raised"
    /\ r_result = Raised("ValueError")
    /\ Len(r_tape) = MaxTapeLen
    /\ IsSet(r_start)

\* C33, as claimed: whenever main_loop has emitted a round's agent_tape event,
\* the Agent invoked in that round has yielded a completion event, and the
\* event carries that completed tape: the tape the Agent was run on in this
\* round extended with the steps it produced in this round.
C33_FreshAgentTape ==
    pc = "after_agent_tape" =>
        /\ completed
        /\ agent_tape = agent_inputs[Len(agent_inputs)] \o produced
        /\ events[Len(events)] = [MainLoopEvent EXCEPT !.agent_tape = Some(agent_tape)]

\* The position of the last event of the stream that carries a tape (0: none)
LastTapeEvent ==
    LET T == {i \in DOMAIN g_events : IsSet(g_events[i].agent_tape) \/ IsSet(g_events[i].env_tape)}
    IN  IF T = {} THEN 0 ELSE CHOOSE i \in T : \A j \in T : j <= i

NoTapeError == [returned |-> None, raised |-> "ValueError"]

\* A get_final_tape call has ended, and it was preceded by calls or by pulls of
\* the caller that went past the last tape event
CalledAfterLastTape == d_results # << >> /\ LastTapeEvent > 0 /\ d_pulled >= LastTapeEvent

\* Once get_final_tape has returned or raised the stream is exhausted, and
\* every later call raises ValueError
DrainedByFirstCall ==
    /\ (d_results # << >> /\ d_pc = "caller") => g_finished
    /\ \A i \in 2 .. Len(d_results) : d_results[i] = NoTapeError

\* C34, as claimed: get_final_tape leaves the stream exhausted and a second
\* call raises ValueError; a call made after the caller pulled the last tape
\* event itself raises ValueError.
C34_Original ==
    /\ DrainedByFirstCall
    /\ CalledAfterLastTape => d_results[1] = NoTapeError

\* C34, amended: get_final_tape leaves the stream exhausted and a second call
\* raises ValueError; a call made after the caller pulled the last tape event
\* itself raises ValueError if the generator then ends by returning, and
\* otherwise raises the exception the generator ends with.
C34_Drains ==
    /\ DrainedByFirstCall
    /\ CalledAfterLastTape =>
          d_results[1] = IF g_end = "StopIteration" THEN NoTapeError
                         ELSE [returned |-> None, raised |-> g_end]

C34_Witness ==
    /\ Len(d_results) = 2
    /\ g_end = "StopIteration"
    /\ LastTapeEvent = 2
    /\ d_pulled = 2
    /\ Len(g_events) = 3
    /\ d_results[1] = NoTapeError
    /\ d_results[2] = NoTapeError

\* Two calls with the same function name, args and kwargs (kwargs as a dict:
\* the order they were given in does not count)
SameCall(c1, c2) ==
    /\ c1.fn = c2.fn
    /\ c1.arg = c2.arg
    /\ SortItems(c1.kwargs, FALSE) = SortItems(c2.kwargs, FALSE)

\* C35, as claimed: the tool is invoked at most once per distinct
\* (function name, args, kwargs), and once a call has returned a result every
\* later call with the same arguments returns that result, whatever its value.
C35_InvokedOnce ==
    /\ \A i, j \in DOMAIN c_invoked : (i < j) => ~SameCall(c_invoked[i], c_invoked[j])
    /\ \A i, j \in DOMAIN c_calls :
          (i < j /\ SameCall(c_calls[i].call, c_calls[j].call) /\ c_calls[i].raised = "")
              => (c_calls[j].raised = "" /\ c_calls[j].returned = c_calls[i].returned)

\* The main thread's call passes get_from_cache and comes back with a miss
MissingGet == t_pc[1] = "get" /\ t_pc'[1] = "got" /\ ~PTruthy(t_result'[1])

\* The main thread's call ends after a miss
MissEnds == t_pc[1] = "got" /\ ~PTruthy(t_result[1]) /\ t_pc'[1] # "got"

\* With a forced cache directory the tool is never invoked, no cache file is
\* written, and a call that ends after a miss raises ValueError
ForcedMissRaises ==
    /\ [](c_forced => (c_invoked = << >> /\ \A n \in DOMAIN c_files : c_files[n] = << >>))
    /\ [][(c_forced /\ MissEnds) =>
             /\ c_calls' = Append(c_calls, CallRaised(t_call[1], "ValueError"))
             /\ t_pc'[1] = "idle"
             /\ c_cache' = c_cache /\ c_heap' = c_heap]_vars

ShardOf(th) == FileName(t_call[th].fn, c_pid, th)

\* Thread th passes the write of add_to_cache
Writes(th) == t_pc[th] = "add_write" /\ t_pc'[th] = "added"

\* C32: no step rewrites or removes a record of a cache file; when a thread
\* completes the write of add_to_cache, exactly one record, the one of its
\* call, is appended to the file named by (function name, process id, thread
\* id), and no other file changes; files change in no other step, so a file is
\* written by the one writer it is named after.
C32_AppendOnlyShards ==
    [][/\ \A n \in DOMAIN c_files : IsPrefix(c_files[n], c_files'[n])
       /\ \A th \in Threads :
             Writes(th) =>
                 /\ c_files'[ShardOf(th)] =
                       Append(c_files[ShardOf(th)], CacheRecord(t_call[th], t_result[th]))
                 /\ \A n \in DOMAIN c_files \ {ShardOf(th)} : c_files'[n] = c_files[n]
       /\ (\A th \in Threads : ~Writes(th)) => c_files' = c_files]_vars

C32_Witness ==
    /\ c_pid = 1
    /\ Len(c_files[FileName("f", 1, 1)]) = 1
    /\ Len(c_files[FileName("f", 1, 2)]) = 1
    /\ c_files[FileName("f", 1, 1)][1].call = c_files[FileName("f", 1, 2)][1].call
    /\ \A th \in Threads : t_pc[th] = "added"

\* C38, as claimed: the key of every add_to_cache call completed in the
\* running process is present in _cache under the call's function name.
C38_NoLostEntry ==
    \A i \in DOMAIN c_calls :
        c_calls[i].pid = c_pid =>
            LET call == c_calls[i].call
            IN  /\ c_cache[call.fn] # 0
                /\ \E e \in c_heap[c_cache[call.fn]] : e[1] = CacheKey(call.arg, call.kwargs)

\* The records read by load_cache that were written from the call c, in the
\* order read
WrittenFor(c) == SelectSeq(c_loaded, LAMBDA rec : SameCall(rec.call, c))

\* C37, as claimed: in a fresh process, get_from_cache for a call that some
\* loaded record was written from returns the result of the last such record
\* loaded (as json writes it), whatever the order the kwargs are given in.
C37_RoundTrip ==
    (t_pc[1] = "got" /\ WrittenFor(t_call[1]) # << >>) =>
        LET recs == WrittenFor(t_call[1])
        IN  ToJson(t_result[1], FALSE) = recs[Len(recs)].result

\* The first page load has run self.files = self.get_tape_files()
FirstLoadAssigned ==
    /\ tb_loads = 1
    /\ tb_out.handler = "get_request_params"
    /\ tb_out.raised \notin {"AssertionError", "ValueError"}

\* The places (file name, position counted from 0) of a tape id in the folder
PlacesOf(id) ==
    {<< f, j >> \in (DOMAIN tb_folder) \X (0 .. MaxFileTapes - 1) :
        j < Len(tb_folder[f]) /\ tb_folder[f][j + 1].id = id}

\* C39, as claimed: after the first self.files = get_tape_files(), every
\* tape_index[id] = (i, j) names through self.files[i] the file that holds the
\* tape at position j; and a first page load on a folder with a tape id at two
\* different positions raises ValueError.
C39_IndexInvariant ==
    /\ FirstLoadAssigned =>
          \A id \in TapeIds :
              IsSet(tb_index[id]) =>
                  LET at == Get(tb_index[id])
                  IN  /\ IsSet(FileAt(tb_files, at[1]))
                      /\ << Get(FileAt(tb_files, at[1])), at[2] >> \in PlacesOf(id)
    /\ (tb_loads = 1 /\ tb_out.handler = "get_request_params"
          /\ \E id \in TapeIds : Cardinality(PlacesOf(id)) > 1) =>
          tb_out.raised = "ValueError"

\* No child id stands twice in a list of tape_children
NoChildTwice(children) ==
    \A id \in TapeIds :
        IsSet(children[id]) =>
            \A k, l \in DOMAIN Get(children[id]) :
                (k # l) => Get(children[id])[k] # Get(children[id])[l]

\* C40, as claimed: when the first page load gave a non-empty file list, the
\* second page load gives the same list and leaves tape_index and
\* tape_children as they were, with no child id listed twice.
C40_StableReload ==
    [][ (tb_loads = 1 /\ tb_files # << >> /\ tb_loads' = 2) =>
            /\ tb_files' = tb_files
            /\ tb_index' = tb_index
            /\ tb_children' = tb_children
            /\ NoChildTwice(tb_children') ]_vars

TypeOK ==
    /\ pc \in {"loop", "agent_next", "agent_resume", "after_for", "after_agent_tape",
               "observations", "after_env_tape", "return", "done", "failed"}
    /\ demand \in BOOLEAN
    /\ n_loops \in 0 .. MaxRounds

====
